---- MODULE Spec2Model ----
(***************************************************************************)
(* The Oracle: signal-to-forecast pipeline.                                *)
(*                                                                         *)
(* State: the signal_events, topic_features and topic_forecasts tables,    *)
(* the topics table (id -> name), the uuid and clock sources, the record   *)
(* of the last operation with its return value, and the per-worker         *)
(* position of a baseline forecast that runs step by step.  `stored`       *)
(* counts the events ever stored.                                          *)
(*                                                                         *)
(* Floats are fixed-point integers with Scale units per 1.0; a calendar    *)
(* day is an integer, Today being date.today().                            *)
(***************************************************************************)
EXTENDS Integers, Sequences, FiniteSets, Bags, TLC

VARIABLES events, stored, features, forecasts, topic_name, nextId, clock, last, wk

vars == <<events, stored, features, forecasts, topic_name, nextId, clock, last, wk>>

(***************************************************************************)
(* Bounds of the model.                                                    *)
(***************************************************************************)
Today == 20
MaxBack == 1
MaxMag == 2
MaxEvents == 2
MaxWrites == 2
MaxMae == 1
MaxYhat == 1

Scale == 10 * 10 * 10

Topics == {"t1", "t2"}
TopicOrder == <<"t1", "t2">>
Names == {"n1", "n2"}
Sources == {"arxiv", "github", "jobs", "funding"}
SourceOrder == <<"arxiv", "github", "jobs", "funding">>
ArrivalSources == {"arxiv", "github"}
ArrivalDays == (Today - MaxBack)..Today
Mags == 1..MaxMag

\* the events that arrive: every kind for the first topic, one kind per day
\* for the others
Arrivals ==
    [topic_id : {"t1"}, day : ArrivalDays, source : ArrivalSources, magnitude : Mags]
    \cup [topic_id : Topics \ {"t1"}, day : ArrivalDays, source : {"arxiv"}, magnitude : {1}]

DefaultLookback == 90
WindowChoices == {0, DefaultLookback}
CleanupChoices == {0}

(***************************************************************************)
(* Generic helpers.                                                        *)
(***************************************************************************)
Max2(a, b) == IF a >= b THEN a ELSE b
Min2(a, b) == IF a <= b THEN a ELSE b

RECURSIVE SumSeq(_)
SumSeq(s) == IF s = <<>> THEN 0 ELSE s[1] + SumSeq(Tail(s))

RECURSIVE SortedSeq(_)
SortedSeq(S) ==
    IF S = {} THEN <<>>
    ELSE LET m == CHOOSE x \in S : \A y \in S : x <= y
         IN  <<m>> \o SortedSeq(S \ {m})

\* floor of the square root, by bisection on lo..hi
RECURSIVE ISqrtIn(_, _, _)
ISqrtIn(v, lo, hi) ==
    IF lo >= hi THEN lo
    ELSE LET mid == (lo + hi + 1) \div 2
         IN  IF mid <= v \div mid THEN ISqrtIn(v, mid, hi) ELSE ISqrtIn(v, lo, mid - 1)

ISqrt(v) == IF v <= 0 THEN 0 ELSE ISqrtIn(v, 1, v)

\* the sum of f[x] over x in S
RECURSIVE SumFn(_, _)
SumFn(f, S) ==
    IF S = {} THEN 0
    ELSE LET x == CHOOSE y \in S : TRUE
         IN  f[x] + SumFn(f, S \ {x})

\* the rows of a table (a bag of rows) that lie in the set S
Rows(B, S) == [e \in DOMAIN B \cap S |-> B[e]]

(***************************************************************************)
(* TimeSeriesAnalyzer (features/timeseries.py).  Sequences are 1-based;    *)
(* index i of the source is index i+1 here.                                *)
(***************************************************************************)
alpha_num == 3
alpha_den == 10
z_window == 7

\* ewm(alpha, adjust=False).mean(): s_0 = x_0, s_i = alpha*x_i + (1-alpha)*s_(i-1)
RECURSIVE Ewma(_)
Ewma(values) ==
    IF Len(values) = 0 THEN <<>>
    ELSE IF Len(values) = 1 THEN <<values[1] * Scale>>
    ELSE LET prev == Ewma(SubSeq(values, 1, Len(values) - 1))
             x == values[Len(values)] * Scale
         IN  Append(prev, (alpha_num * x + (alpha_den - alpha_num) * prev[Len(prev)])
                            \div alpha_den)

VelocityFromFirstValue(values) ==
    IF Len(values) < 2 THEN [i \in 1..Len(values) |-> 0]
    ELSE LET ewma == Ewma(values)
         IN  [i \in 1..Len(values) |-> IF i = 1 THEN ewma[1] ELSE ewma[i] - ewma[i - 1]]

calculate_velocity(values) ==
    IF Len(values) < 2 THEN [i \in 1..Len(values) |-> 0]
    ELSE LET ewma == Ewma(values)
         IN  [i \in 1..Len(values) |-> IF i = 1 THEN 0 ELSE ewma[i] - ewma[i - 1]]

calculate_acceleration(velocity) ==
    IF Len(velocity) < 2 THEN [i \in 1..Len(velocity) |-> 0]
    ELSE [i \in 1..Len(velocity) |-> IF i = 1 THEN 0 ELSE velocity[i] - velocity[i - 1]]

\* the z-score, in units of Scale and to two decimals, of a value whose
\* distance from the mean is num / n against a window of n values whose
\* squared distances (times n * n) add up to dev2; numpy's std is the
\* population standard deviation, sqrt(dev2 / n) / n
ZScoreOf(num, dev2, n) ==
    LET magnitude == ISqrt((num * num * n * 100 * 100) \div dev2) * (Scale \div 100)
    IN  IF num >= 0 THEN magnitude ELSE 0 - magnitude

ZScoreAtThroughCurrent(values, i, window) ==
    LET w == SubSeq(values, i - window + 1, i)
        s == SumSeq(w)
        dev2 == SumSeq([j \in 1..window |-> (window * w[j] - s) * (window * w[j] - s)])
    IN  IF dev2 = 0 THEN 0 ELSE ZScoreOf(window * values[i] - s, dev2, window)

\* z-score of values[i] against the `window` values before it
ZScoreAt(values, i, window) ==
    LET w == SubSeq(values, i - window, i - 1)
        s == SumSeq(w)
        dev2 == SumSeq([j \in 1..window |-> (window * w[j] - s) * (window * w[j] - s)])
    IN  IF dev2 = 0 THEN 0 ELSE ZScoreOf(window * values[i] - s, dev2, window)

calculate_z_score_spike(values, window) ==
    IF Len(values) < window THEN [i \in 1..Len(values) |-> 0]
    ELSE [i \in 1..Len(values) |->
            IF i - 1 < window THEN 0 ELSE ZScoreAt(values, i, window)]

\* source_counts: a function from the sources to equally indexed count sequences
calculate_convergence(source_counts) ==
    IF DOMAIN source_counts = {} THEN <<>>
    ELSE LET min_length ==
                 CHOOSE n \in {Len(source_counts[s]) : s \in DOMAIN source_counts} :
                     \A s \in DOMAIN source_counts : n <= Len(source_counts[s])
             total_sources == Cardinality(DOMAIN source_counts)
         IN  [i \in 1..min_length |->
                (Cardinality({s \in DOMAIN source_counts : source_counts[s][i] > 0}) * Scale)
                    \div total_sources]

(***************************************************************************)
(* Tables.  A table is a bag of rows: rows that carry a uuid in the source *)
(* and are only distinguished by it are equal rows with a multiplicity.    *)
(*   signal_events row  : [topic_id, day, source, magnitude]               *)
(*   topic_features row : FeatureRow below                                 *)
(***************************************************************************)
EventRows == [topic_id : Topics, day : 0..Today, source : Sources, magnitude : Mags]

Count(B) == BagCardinality(B)

MagnitudeSum(B) == SumFn([e \in DOMAIN B |-> B[e] * e.magnitude], DOMAIN B)

start_date(days) == Today - days

(***************************************************************************)
(* FeatureMatrixBuilder (features/build_feature_matrix.py).                *)
(***************************************************************************)
\* db.query(TopicFeatures).filter(topic_id == .., date >= start_date)
ExistingFeatures(feat, topic_id, start) ==
    [f \in {x \in DOMAIN feat : x.topic_id = topic_id /\ x.date >= start} |-> feat[f]]

\* db.query(SignalEvent).filter(topic_id == .., timestamp >= start_date)
WindowEvents(ev, topic_id, start) ==
    [e \in {x \in DOMAIN ev : x.topic_id = topic_id /\ x.day >= start} |-> ev[e]]

\* daily_events[d][source], d = event.timestamp.date()
DailyEvents(evs, d) == [e \in {x \in DOMAIN evs : x.day = d} |-> evs[e]]
SourceEvents(evs, d, source) ==
    [e \in {x \in DOMAIN evs : x.day = d /\ x.source = source} |-> evs[e]]

EventDates(evs) == {e.day : e \in DOMAIN evs}

DailyMetricsOverWindow(evs, d) ==
    LET present == {e.source : e \in DOMAIN DailyEvents(evs, d)}
        cnt(source) == Count(SourceEvents(evs, d, source))
    IN  [mention_count_total |-> Count(evs),
         mention_count_arxiv |-> cnt("arxiv"),
         mention_count_github |-> cnt("github"),
         mention_count_jobs |-> cnt("jobs"),
         mention_count_funding |-> cnt("funding"),
         magnitude_sum |-> MagnitudeSum(evs),
         unique_sources |-> Cardinality(present)]

_calculate_daily_metrics(evs, d) ==
    LET present == {e.source : e \in DOMAIN DailyEvents(evs, d)}
        cnt(source) == Count(SourceEvents(evs, d, source))
    IN  [mention_count_total |-> SumFn([src \in present |-> cnt(src)], present),
         mention_count_arxiv |-> cnt("arxiv"),
         mention_count_github |-> cnt("github"),
         mention_count_jobs |-> cnt("jobs"),
         mention_count_funding |-> cnt("funding"),
         magnitude_sum |-> SumFn([src \in present |-> MagnitudeSum(SourceEvents(evs, d, src))],
                                 present),
         unique_sources |-> Cardinality(present)]

\* dates: the sorted event-days up to and including the current one
_calculate_timeseries_features(dates, evs) ==
    IF Len(dates) < 2
    THEN [velocity |-> 0, acceleration |-> 0, z_spike |-> 0, convergence |-> 0]
    ELSE LET values == [i \in 1..Len(dates) |-> MagnitudeSum(DailyEvents(evs, dates[i]))]
             source_counts ==
                 [src \in Sources |->
                     [i \in 1..Len(dates) |-> Count(SourceEvents(evs, dates[i], src))]]
             velocity == calculate_velocity(values)
             acceleration == calculate_acceleration(velocity)
             z_spikes == calculate_z_score_spike(values, z_window)
             convergence == calculate_convergence(source_counts)
             n == Len(dates)
         IN  [velocity |-> velocity[n], acceleration |-> acceleration[n],
              z_spike |-> z_spikes[n], convergence |-> convergence[n]]

FeatureRecordAllDates(topic_id, dates, i, evs) ==
    LET m == _calculate_daily_metrics(evs, dates[i])
        ts == _calculate_timeseries_features(dates, evs)
    IN  [topic_id |-> topic_id, date |-> dates[i],
         mention_count_total |-> m.mention_count_total,
         mention_count_arxiv |-> m.mention_count_arxiv,
         mention_count_github |-> m.mention_count_github,
         mention_count_jobs |-> m.mention_count_jobs,
         mention_count_funding |-> m.mention_count_funding,
         magnitude_sum |-> m.magnitude_sum,
         unique_sources |-> m.unique_sources,
         velocity |-> ts.velocity, acceleration |-> ts.acceleration,
         z_spike |-> ts.z_spike, convergence |-> ts.convergence]

FeatureRecord(topic_id, dates, i, evs) ==
    LET m == _calculate_daily_metrics(evs, dates[i])
        ts == _calculate_timeseries_features(SubSeq(dates, 1, i), evs)
    IN  [topic_id |-> topic_id, date |-> dates[i],
         mention_count_total |-> m.mention_count_total,
         mention_count_arxiv |-> m.mention_count_arxiv,
         mention_count_github |-> m.mention_count_github,
         mention_count_jobs |-> m.mention_count_jobs,
         mention_count_funding |-> m.mention_count_funding,
         magnitude_sum |-> m.magnitude_sum,
         unique_sources |-> m.unique_sources,
         velocity |-> ts.velocity, acceleration |-> ts.acceleration,
         z_spike |-> ts.z_spike, convergence |-> ts.convergence]

\* feature_records: one record per event-day of evs
FeatureRecords(topic_id, evs) ==
    LET dates == SortedSeq(EventDates(evs))
    IN  SetToBag({FeatureRecord(topic_id, dates, i, evs) : i \in 1..Len(dates)})

\* db.query(TopicFeatures).filter(topic_id == ..): the rows of one topic, and
\* the number of rows of one (topic_id, date)
TopicFeatureRows(feat, topic_id) ==
    [f \in {x \in DOMAIN feat : x.topic_id = topic_id} |-> feat[f]]
RowsAt(feat, topic_id, d) ==
    Count([f \in {x \in DOMAIN feat : x.topic_id = topic_id /\ x.date = d} |-> feat[f]])

SkipBuildWhenForced(existing_features, force_rebuild) ==
    DOMAIN existing_features # {} /\ force_rebuild

\* existing-and-not-forced: the build is skipped
SkipBuild(existing_features, force_rebuild) ==
    DOMAIN existing_features # {} /\ ~force_rebuild

DeletedFeaturesNone(existing_features, force_rebuild) == EmptyBag

\* the rows deleted before the new ones are added
DeletedFeatures(existing_features, force_rebuild) ==
    IF force_rebuild /\ DOMAIN existing_features # {} THEN existing_features ELSE EmptyBag

DeletionsKept(feat, pending) == pending

\* db.rollback() after a failed commit: the table as it was before the
\* deletions and insertions pending in the session
RolledBack(feat, pending) == feat

\* _build_topic_features: the table after the call, the value returned,
\* whether the call raised and whether it took the skip branch.  commit_ok: whether db.commit() succeeds.
_build_topic_features(feat, ev, topic_id, days, force_rebuild, commit_ok) ==
    LET start == start_date(days)
        existing_features == ExistingFeatures(feat, topic_id, start)
        evs == WindowEvents(ev, topic_id, start)
        feature_records == FeatureRecords(topic_id, evs)
    IN  IF SkipBuild(existing_features, force_rebuild)
        THEN [features |-> feat, ret |-> Count(existing_features), raised |-> FALSE,
              skipped |-> TRUE]
        ELSE IF DOMAIN evs = {}
        THEN [features |-> feat, ret |-> 0, raised |-> FALSE, skipped |-> FALSE]
        ELSE IF commit_ok
        THEN [features |-> (feat (-) DeletedFeatures(existing_features, force_rebuild))
                              (+) feature_records,
              ret |-> Count(feature_records), raised |-> FALSE, skipped |-> FALSE]
        ELSE [features |-> RolledBack(feat, feat (-) DeletedFeatures(existing_features, force_rebuild)),
              ret |-> 0, raised |-> TRUE, skipped |-> FALSE]

\* build_feature_matrix: topics in query order; results is keyed by topic.name
RECURSIVE BuildAll(_, _, _, _, _, _, _)
BuildAll(feat, ev, names, order, days, force_rebuild, fails) ==
    IF order = <<>> THEN [features |-> feat, results |-> <<>>, calls |-> <<>>]
    ELSE LET topic == order[1]
             r == _build_topic_features(feat, ev, topic, days, force_rebuild,
                                        topic \notin fails)
             rest == BuildAll(r.features, ev, names, Tail(order), days, force_rebuild, fails)
             count == IF r.raised THEN 0 ELSE r.ret
         IN  [features |-> rest.features,
              results |-> [n \in {names[topic]} \cup DOMAIN rest.results |->
                              IF n \in DOMAIN rest.results THEN rest.results[n] ELSE count],
              calls |-> [t \in {topic} \cup DOMAIN rest.calls |->
                            IF t = topic
                            THEN [ret |-> r.ret, raised |-> r.raised,
                                  skipped |-> r.skipped]
                            ELSE rest.calls[t]]]

(***************************************************************************)
(* Ingestion (ingestion/etl_runner.py): events arrive and old ones are     *)
(* cleaned up.                                                             *)
(***************************************************************************)
\* db.query(SignalEvent).filter(timestamp < utcnow() - days).delete()
OldEvents(ev, days) == [e \in {x \in DOMAIN ev : x.day < Today - days} |-> ev[e]]

Idle == [pc |-> "idle"]

StoreEvent(event) ==
    /\ stored < MaxEvents
    /\ stored' = stored + 1
    /\ events' = events (+) SetToBag({event})
    /\ last' = [op |-> "store_event"]
    /\ UNCHANGED <<features, forecasts, topic_name, nextId, clock, wk>>

CleanupOldData(days) ==
    /\ DOMAIN OldEvents(events, days) # {}
    /\ events' = events (-) OldEvents(events, days)
    /\ last' = [op |-> "cleanup_old_data", days |-> days]
    /\ UNCHANGED <<stored, features, forecasts, topic_name, nextId, clock, wk>>

(***************************************************************************)
(* Feature build operations.                                               *)
(***************************************************************************)
BuildFeatureMatrix(days, force_rebuild, fails) ==
    \E r \in {BuildAll(features, events, topic_name, TopicOrder, days, force_rebuild,
                        fails)} :
        /\ features' = r.features
        /\ last' = [op |-> "build_feature_matrix", days |-> days, force |-> force_rebuild,
                    results |-> r.results, calls |-> r.calls]
        /\ UNCHANGED <<events, stored, forecasts, topic_name, nextId, clock, wk>>

RebuildTopicFeatures(topic_id, days, commit_ok) ==
    \E r \in {_build_topic_features(features, events, topic_id, days, TRUE, commit_ok)} :
        /\ features' = r.features
        /\ last' = [op |-> "rebuild_topic_features", topic |-> topic_id, days |-> days,
                    ret |-> r.ret, raised |-> r.raised, skipped |-> r.skipped]
        /\ UNCHANGED <<events, stored, forecasts, topic_name, nextId, clock, wk>>

(***************************************************************************)
(* The feature pipeline: ingestion and feature builds, one at a time.      *)
(***************************************************************************)
NameMaps == {[t \in Topics |-> IF t = "t1" THEN "n1" ELSE n] : n \in Names}

Workers == {"w1", "w2"}

InitFeatures ==
    /\ events = EmptyBag
    /\ stored = 0
    /\ features = EmptyBag
    /\ forecasts = {}
    /\ topic_name \in NameMaps
    /\ nextId = 1
    /\ clock = 1
    /\ last = [op |-> "init"]
    /\ wk = [w \in Workers |-> Idle]

NextFeatures ==
    \/ \E event \in Arrivals : StoreEvent(event)
    \/ \E days \in CleanupChoices : CleanupOldData(days)
    \/ \E days \in WindowChoices, force \in BOOLEAN, fails \in SUBSET Topics :
          BuildFeatureMatrix(days, force, fails)
    \/ \E t \in Topics, days \in WindowChoices, ok \in BOOLEAN :
          RebuildTopicFeatures(t, days, ok)

SpecFeatures == InitFeatures /\ [][NextFeatures]_vars

(***************************************************************************)
(* BaselineForecaster (forecasting/baseline.py).                           *)
(*   topic_forecasts row: [id, topic_id, horizon_days, forecast_curve,     *)
(*     surge_score, confidence_score, model_type, model_params,            *)
(*     model_metrics, created_at, updated_at]                              *)
(* A forecast curve is the sequence of its yhat values, one per day after  *)
(* the last feature date.                                                  *)
(***************************************************************************)
min_data_points == 14
forecast_horizons == <<30, 90, 180>>
Horizons == {forecast_horizons[i] : i \in 1..Len(forecast_horizons)}
recent_days == 7

Candidates == <<"ARIMA", "ExponentialSmoothing", "Simple">>
ModelType(candidate) == IF candidate = "Simple" THEN "LinearTrend" ELSE candidate

NoResult == "None"
\* a forecast result of None, and the None that .first() returns
NoForecast == [model_type |-> NoResult]
NoRow == [id |-> 0]
\* a candidate fit that yields no result
Failed == -1

\* The numerical fits (statsmodels, numpy.polyfit) are inputs: for each
\* candidate whether it yields a result and with which in-sample error (in
\* tenths), and the level of the fitted curve (in units).
MaeUnit == Scale \div 10
FitInputs ==
    [cands : [{Candidates[i] : i \in 1..Len(Candidates)} -> {Failed} \cup (0..MaxMae)],
     yhat : 0..MaxYhat]

\* the rows of a bag in some order
RECURSIVE BagSeq(_)
BagSeq(B) ==
    IF DOMAIN B = {} THEN <<>>
    ELSE LET x == CHOOSE y \in DOMAIN B : TRUE
         IN  [i \in 1..B[x] |-> x] \o BagSeq([y \in DOMAIN B \ {x} |-> B[y]])

\* order_by(TopicFeatures.date.asc()): the rows of each date, by date
RECURSIVE RowSeqFrom(_, _)
RowSeqFrom(B, dates) ==
    IF dates = <<>> THEN <<>>
    ELSE BagSeq([x \in {y \in DOMAIN B : y.date = Head(dates)} |-> B[x]])
           \o RowSeqFrom(B, Tail(dates))

RowSeq(B) == RowSeqFrom(B, SortedSeq({x.date : x \in DOMAIN B}))

\* _get_topic_features_data: the topic's rows of the last 90 days by date
_get_topic_features_data(feat, topic_id) ==
    RowSeq(ExistingFeatures(feat, topic_id, start_date(DefaultLookback)))

\* the features data of each topic of a query result, in its order
RECURSIVE FeaturesData(_, _)
FeaturesData(feat, order) ==
    IF order = <<>> THEN <<>>
    ELSE <<_get_topic_features_data(feat, Head(order))>> \o FeaturesData(feat, Tail(order))

\* pandas Series.std(): the sample standard deviation (ddof = 1)
SeriesStd(series) ==
    LET n == Len(series)
        sum == SumSeq(series)
        dev2 == SumSeq([i \in 1..n |-> (n * series[i] - sum) * (n * series[i] - sum)])
    IN  IF n < 2 THEN 0 ELSE ISqrt(dev2 \div (n - 1)) \div n

CandidateResultShort(candidate, mae, yhat, series, horizon_days) ==
    [forecast_curve |-> [i \in 1..(horizon_days - 1) |-> yhat * Scale],
     confidence_score |-> 0,
     model_type |-> ModelType(candidate),
     model_params |-> <<ModelType(candidate), mae, yhat>>,
     model_metrics |-> [mae |-> mae * MaeUnit, mse |-> 0]]

\* The dict a candidate returns for an in-sample error mae and a curve level:
\* one point per day of the horizon; the mse is that of residuals all of
\* size mae.
CandidateResult(candidate, mae, yhat, series, horizon_days) ==
    LET std == SeriesStd(series)
        mae_fp == mae * MaeUnit
    IN  [forecast_curve |-> [i \in 1..horizon_days |-> yhat * Scale],
         confidence_score |->
             IF std > 0 THEN Max2(0, Scale - ((mae_fp * Scale) \div std)) ELSE 0,
         model_type |-> ModelType(candidate),
         model_params |-> <<ModelType(candidate), mae, yhat>>,
         model_metrics |-> [mae |-> mae_fp, mse |-> (mae_fp * mae_fp) \div Scale]]

BetterThanOrTie(result, best) ==
    best.model_type = NoResult \/ result.model_metrics.mae <= best.model_metrics.mae

\* a later candidate replaces the best one on strict improvement only
BetterThan(result, best) ==
    best.model_type = NoResult \/ result.model_metrics.mae < best.model_metrics.mae

RECURSIVE SelectBestStopAtFailure(_, _, _, _, _)
SelectBestStopAtFailure(i, best, fit, series, horizon_days) ==
    IF i > Len(Candidates) \/ fit.cands[Candidates[i]] = Failed THEN best
    ELSE LET result == CandidateResult(Candidates[i], fit.cands[Candidates[i]], fit.yhat,
                                       series, horizon_days)
         IN  IF BetterThan(result, best)
             THEN SelectBestStopAtFailure(i + 1, result, fit, series, horizon_days)
             ELSE SelectBestStopAtFailure(i + 1, best, fit, series, horizon_days)

\* the loop over the candidates in their order: one that yields no result is
\* passed over
RECURSIVE SelectBest(_, _, _, _, _)
SelectBest(i, best, fit, series, horizon_days) ==
    IF i > Len(Candidates) THEN best
    ELSE LET c == Candidates[i]
             result == CandidateResult(c, fit.cands[c], fit.yhat, series, horizon_days)
         IN  IF fit.cands[c] # Failed /\ BetterThan(result, best)
             THEN SelectBest(i + 1, result, fit, series, horizon_days)
             ELSE SelectBest(i + 1, best, fit, series, horizon_days)

_generate_forecast(features_data, horizon_days, fit) ==
    IF Len(features_data) = 0 THEN NoForecast
    ELSE SelectBest(1, NoForecast, fit,
                    [i \in 1..Len(features_data) |-> features_data[i].velocity],
                    horizon_days)

w_velocity_growth == 4
w_momentum == 3
w_z_spike == 2
w_convergence == 1
w_den == 10

MaxOf(seq) == CHOOSE x \in {seq[i] : i \in 1..Len(seq)} :
                 \A i \in 1..Len(seq) : seq[i] <= x

Unclamped(x) == x

\* max(0, min(1, x))
Clamp01(x) == Max2(0, Min2(Scale, x))

\* settings.surge_score_weights, in tenths
surge_score_weights ==
    [velocity_growth |-> w_velocity_growth, momentum |-> w_momentum,
     z_spike |-> w_z_spike, convergence |-> w_convergence]

\* _calculate_surge_score of a forecaster whose surge_score_weights are weights
SurgeScoreWith(weights, features_data, forecast_result) ==
    LET n == Len(features_data)
        recent_features == SubSeq(features_data, Max2(1, n - recent_days + 1), n)
        k == Len(recent_features)
        forecast_curve == forecast_result.forecast_curve
        current_velocity == recent_features[k].velocity
        future_velocity ==
            IF Len(forecast_curve) > 29 THEN forecast_curve[30] ELSE current_velocity
        velocity_growth ==
            ((future_velocity - current_velocity) * Scale) \div Max2(current_velocity, 1)
        avg_acceleration ==
            SumSeq([i \in 1..k |-> recent_features[i].acceleration]) \div k
        momentum == Max2(0, avg_acceleration)
        max_z_spike == MaxOf([i \in 1..k |-> recent_features[i].z_spike])
        z_spike == Max2(0, max_z_spike - 2 * Scale)
        avg_convergence ==
            SumSeq([i \in 1..k |-> recent_features[i].convergence]) \div k
        weighted ==
            (weights.velocity_growth * velocity_growth + weights.momentum * momentum
               + weights.z_spike * z_spike + weights.convergence * avg_convergence)
              \div w_den
        boosted ==
            IF 2 * avg_convergence > Scale THEN (weighted * 12) \div 10 ELSE weighted
    IN  IF n = 0 THEN 0 ELSE Clamp01(boosted)

_calculate_surge_score(features_data, forecast_result) ==
    SurgeScoreWith(surge_score_weights, features_data, forecast_result)

\* db.query(TopicForecast).filter(topic_id, horizon_days): the matching rows
KeyForecasts(fc, topic_id, horizon_days) ==
    {r \in fc : r.topic_id = topic_id /\ r.horizon_days = horizon_days}

SkipForecastWhenForced(existing, force_rebuild) == existing # NoRow /\ force_rebuild

\* existing-and-not-forced: nothing is fitted
SkipForecast(existing, force_rebuild) == existing # NoRow /\ ~force_rebuild

InsufficientDataBelowLast(features_data) == Len(features_data) < min_data_points - 1

\* len(features_data) < self.min_data_points
InsufficientData(features_data) == Len(features_data) < min_data_points

\* the values of the six assigned columns of a forecast_result
ForecastColumns ==
    {"forecast_curve", "surge_score", "confidence_score", "model_type",
     "model_params", "model_metrics"}

NewValues(forecast_result, surge_score) ==
    [forecast_curve |-> forecast_result.forecast_curve,
     surge_score |-> surge_score,
     confidence_score |-> forecast_result.confidence_score,
     model_type |-> forecast_result.model_type,
     model_params |-> forecast_result.model_params,
     model_metrics |-> forecast_result.model_metrics]

\* TopicForecast(id=uuid4(), ...) followed by db.add and commit
InsertedForecast(id, topic_id, horizon_days, values, now) ==
    [id |-> id, topic_id |-> topic_id, horizon_days |-> horizon_days,
     forecast_curve |-> values.forecast_curve,
     surge_score |-> values.surge_score,
     confidence_score |-> values.confidence_score,
     model_type |-> values.model_type,
     model_params |-> values.model_params,
     model_metrics |-> values.model_metrics,
     created_at |-> now, updated_at |-> now]

\* The UPDATE a session flushes for the row it loaded: the assigned columns
\* whose value differs from the loaded one, and updated_at.
UpdatedForecast(row, loaded, values, now) ==
    [c \in DOMAIN row |->
        IF c = "updated_at" THEN now
        ELSE IF c \in ForecastColumns /\ values[c] # loaded[c] THEN values[c]
        ELSE row[c]]

WriteForecastAdds(fc, existing, id, topic_id, horizon_days, values, now) ==
    fc \cup {InsertedForecast(id, topic_id, horizon_days, values, now)}

\* the table after the commit of one worker's write
WriteForecast(fc, existing, id, topic_id, horizon_days, values, now) ==
    IF existing # NoRow
    THEN {IF r.id = existing.id THEN UpdatedForecast(r, existing, values, now) ELSE r :
             r \in fc}
    ELSE fc \cup {InsertedForecast(id, topic_id, horizon_days, values, now)}

\* _forecast_topic_horizon with the row .first() returned (existing) and the
\* rows _get_topic_features_data returned (features_data), run without
\* interruption: the table after the call, the value returned, whether it
\* raised, whether a model was fitted and the values written.
_forecast_topic_horizon(fc, features_data, existing, id, now, topic_id, horizon_days, force_rebuild, fit, commit_ok) ==
    LET forecast_result == _generate_forecast(features_data, horizon_days, fit)
        surge_score == _calculate_surge_score(features_data, forecast_result)
        values == NewValues(forecast_result, surge_score)
        nothing == [forecasts |-> fc, ret |-> 0, raised |-> FALSE, fitted |-> FALSE,
                    wrote |-> FALSE, values |-> NoForecast]
    IN  IF SkipForecast(existing, force_rebuild) THEN [nothing EXCEPT !.ret = 1]
        ELSE IF InsufficientData(features_data) THEN nothing
        ELSE IF forecast_result = NoForecast THEN [nothing EXCEPT !.fitted = TRUE]
        ELSE IF commit_ok
        THEN [forecasts |-> WriteForecast(fc, existing, id, topic_id, horizon_days,
                                          values, now),
              ret |-> 1, raised |-> FALSE, fitted |-> TRUE, wrote |-> TRUE,
              values |-> values]
        ELSE [nothing EXCEPT !.raised = TRUE, !.fitted = TRUE]

\* .first() of the key's rows: any of them, None when there is none
FirstChoices(fc, topic_id, horizon_days) ==
    IF KeyForecasts(fc, topic_id, horizon_days) = {} THEN {NoRow}
    ELSE KeyForecasts(fc, topic_id, horizon_days)

First(fc, topic_id, horizon_days) ==
    CHOOSE r \in FirstChoices(fc, topic_id, horizon_days) : TRUE

\* TheOne({e : x \in {v}}) is e with x naming the value of v
TheOne(S) == CHOOSE x \in S : TRUE

\* One call of the horizon loop of forecast_all_topics.  acc carries st (the
\* table, the next uuid, the clock and the keys written so far), whether a
\* call raised, and topic_results.
CallHorizon(acc, features_data, topic_id, h, force_rebuild, fit, fails) ==
    TheOne(
      {[st |-> [forecasts |-> r.forecasts,
                nextId |-> IF r.wrote /\ First(acc.st.forecasts, topic_id, h) = NoRow
                           THEN acc.st.nextId + 1 ELSE acc.st.nextId,
                clock |-> IF r.wrote THEN acc.st.clock + 1 ELSE acc.st.clock,
                written |-> IF r.wrote THEN acc.st.written \cup {<<topic_id, h>>}
                            ELSE acc.st.written],
        error |-> r.raised,
        counts |-> IF r.raised THEN <<>>
                   ELSE [x \in {h} \cup DOMAIN acc.counts |->
                            IF x = h THEN r.ret ELSE acc.counts[x]]] :
       r \in {_forecast_topic_horizon(acc.st.forecasts, features_data,
                                      First(acc.st.forecasts, topic_id, h),
                                      acc.st.nextId, acc.st.clock, topic_id, h,
                                      force_rebuild, fit, <<topic_id, h>> \notin fails)}})

\* the horizons of one topic from index i on: a call that raises ends the topic
RECURSIVE ForecastHorizons(_, _, _, _, _, _, _)
ForecastHorizons(acc, features_data, topic_id, i, force_rebuild, fit, fails) ==
    IF i > Len(forecast_horizons) \/ acc.error THEN acc
    ELSE TheOne(
      {ForecastHorizons(next, features_data, topic_id, i + 1, force_rebuild, fit, fails) :
       next \in {CallHorizon(acc, features_data, topic_id, forecast_horizons[i],
                             force_rebuild, fit, fails)}})

\* one topic of forecast_all_topics: results[topic.name] is its error entry
\* or its topic_results
ForecastTopic(acc, features_data, names, topic, force_rebuild, fit, fails) ==
    TheOne(
      {[st |-> r.st,
        results |-> [n \in {names[topic]} \cup DOMAIN acc.results |->
                        IF n = names[topic] THEN [error |-> r.error, counts |-> r.counts]
                        ELSE acc.results[n]]] :
       r \in {ForecastHorizons([st |-> acc.st, error |-> FALSE, counts |-> <<>>],
                               features_data, topic, 1, force_rebuild, fit, fails)}})

\* forecast_all_topics: topics in query order, data holding the features data
\* of each; acc carries st and results
RECURSIVE ForecastAll(_, _, _, _, _, _, _)
ForecastAll(acc, data, names, order, force_rebuild, fit, fails) ==
    IF order = <<>> THEN acc
    ELSE TheOne(
      {ForecastAll(next, Tail(data), names, Tail(order), force_rebuild, fit, fails) :
       next \in {ForecastTopic(acc, data[1], names, order[1], force_rebuild, fit,
                               fails)}})

(***************************************************************************)
(* ProphetForecaster (forecasting/prophet_forecaster.py).                  *)
(***************************************************************************)
\* the mapped attributes of TopicForecast (models/forecast.py)
TopicForecastAttributes ==
    {"id", "topic_id", "horizon_days", "forecast_curve", "surge_score",
     "confidence_score", "model_type", "model_params", "model_metrics",
     "created_at", "updated_at", "topic"}

\* the keyword arguments forecast_topic passes to TopicForecast(...)
ProphetRecordKwargs ==
    {"id", "topic_id", "horizon_days", "model_type", "growth_rate",
     "confidence_score", "forecast_curve", "surge_score", "created_at"}

\* The declarative constructor raises TypeError for a keyword that is no
\* attribute of the class; forecast_topic catches it and returns None.
ConstructorAccepts(kwargs) == kwargs \subseteq TopicForecastAttributes

\* the Prophet fit is an input: no result (it raised), or the level of the
\* curve with the confidence and surge scores computed from it
ProphetFits ==
    {NoForecast} \cup
    [model_type : {"Prophet"}, yhat : 0..MaxYhat, confidence_score : {0, Scale},
     surge_score : {Scale \div 2}]

ProphetExisting(fc, topic_id, horizon_days) ==
    {r \in KeyForecasts(fc, topic_id, horizon_days) : r.model_type = "Prophet"}

ProphetRecord(id, topic_id, horizon_days, fit, now) ==
    [id |-> id, topic_id |-> topic_id, horizon_days |-> horizon_days,
     forecast_curve |-> [i \in 1..horizon_days |-> fit.yhat * Scale],
     surge_score |-> fit.surge_score,
     confidence_score |-> fit.confidence_score,
     model_type |-> "Prophet",
     model_params |-> <<>>,
     model_metrics |-> <<>>,
     created_at |-> now, updated_at |-> now]

\* forecast_topic with the row .first() returned for the Prophet family
\* (existing): ret is None, the id of the existing row or the id of the row
\* written.
forecast_topic(fc, feat, existing, id, now, topic_id, horizon_days, force_rebuild, fit) ==
    LET rows == TopicFeatureRows(feat, topic_id)
        nothing == [forecasts |-> fc, ret |-> NoRow.id, existing |-> FALSE,
                    fitted |-> FALSE, wrote |-> FALSE]
    IN  IF ~force_rebuild /\ existing # NoRow
        THEN [nothing EXCEPT !.ret = existing.id, !.existing = TRUE]
        ELSE IF Count(rows) < min_data_points THEN nothing
        ELSE IF fit = NoForecast THEN [nothing EXCEPT !.fitted = TRUE]
        ELSE IF ~ConstructorAccepts(ProphetRecordKwargs)
        THEN [nothing EXCEPT !.fitted = TRUE]
        ELSE [forecasts |-> fc \cup {ProphetRecord(id, topic_id, horizon_days, fit, now)},
              ret |-> id, existing |-> FALSE, fitted |-> TRUE, wrote |-> TRUE]

(***************************************************************************)
(* Forecast operations, one at a time, on a feature table built from a     *)
(* history of daily events.                                                *)
(***************************************************************************)
\* The fits drawn for the table operations: the statsmodels candidates raise,
\* the trend fit raises or is exact, with a curve at either level.
CandidateSet == {Candidates[i] : i \in 1..Len(Candidates)}
NoFit == [cands |-> [c \in CandidateSet |-> Failed], yhat |-> 0]
StoreFits ==
    {NoFit} \cup
    {f \in FitInputs : /\ f.cands["ARIMA"] = Failed
                       /\ f.cands["ExponentialSmoothing"] = Failed
                       /\ f.cands["Simple"] = 0}

\* a fit is an input of a call only when the call reaches it
FitsReached(reached) == IF reached THEN StoreFits ELSE {NoFit}
CommitsReached(reached, fit) == IF reached /\ fit # NoFit THEN BOOLEAN ELSE {TRUE}

Keys == Topics \X Horizons
FailChoices == {{}} \cup {{k} : k \in Keys}

\* db.query(TopicFeatures).filter(date < today - days).delete()
OldFeatures(feat, days) == [f \in {x \in DOMAIN feat : x.date < Today - days} |-> feat[f]]

FeatureCleanupChoices == {recent_days}

CleanupOldFeatures(days) ==
    /\ DOMAIN OldFeatures(features, days) # {}
    /\ features' = features (-) OldFeatures(features, days)
    /\ last' = [op |-> "cleanup_old_features", days |-> days]
    /\ UNCHANGED <<events, stored, forecasts, topic_name, nextId, clock, wk>>

BaselineForecast(topic_id, horizon_days) ==
    \E features_data \in {_get_topic_features_data(features, topic_id)},
       force_rebuild \in BOOLEAN,
       existing \in FirstChoices(forecasts, topic_id, horizon_days) :
        \E fit \in FitsReached(/\ ~SkipForecast(existing, force_rebuild)
                                /\ ~InsufficientData(features_data)) :
        \E commit_ok \in CommitsReached(/\ ~SkipForecast(existing, force_rebuild)
                                         /\ ~InsufficientData(features_data), fit) :
        \E r \in {_forecast_topic_horizon(forecasts, features_data, existing, nextId,
                                           clock, topic_id, horizon_days, force_rebuild,
                                           fit, commit_ok)} :
            /\ r.wrote => clock <= MaxWrites
            /\ forecasts' = r.forecasts
            /\ nextId' = IF r.wrote /\ existing = NoRow THEN nextId + 1 ELSE nextId
            /\ clock' = IF r.wrote THEN clock + 1 ELSE clock
            /\ last' = [op |-> "forecast_topic_horizon", topic |-> topic_id,
                        horizon |-> horizon_days, force |-> force_rebuild,
                        ret |-> r.ret, raised |-> r.raised, fitted |-> r.fitted,
                        wrote |-> r.wrote, values |-> r.values]
            /\ UNCHANGED <<events, stored, features, topic_name, wk>>

ForecastAllTopics ==
    \E data \in {FeaturesData(features, TopicOrder)},
       force_rebuild \in BOOLEAN, fit \in StoreFits, fails \in FailChoices :
        \E r \in {ForecastAll([st |-> [forecasts |-> forecasts, nextId |-> nextId,
                                      clock |-> clock, written |-> {}],
                               results |-> <<>>],
                              data, topic_name, TopicOrder, force_rebuild, fit, fails)} :
            /\ r.st.clock <= MaxWrites + 1
            /\ forecasts' = r.st.forecasts
            /\ nextId' = r.st.nextId
            /\ clock' = r.st.clock
            /\ last' = [op |-> "forecast_all_topics", force |-> force_rebuild,
                        results |-> r.results, written |-> r.st.written]
            /\ UNCHANGED <<events, stored, features, topic_name, wk>>

ProphetForecast(topic_id, horizon_days) ==
    \E force_rebuild \in BOOLEAN,
       existing \in IF ProphetExisting(forecasts, topic_id, horizon_days) = {}
                    THEN {NoRow}
                    ELSE ProphetExisting(forecasts, topic_id, horizon_days) :
    \E fit \in IF /\ force_rebuild \/ existing = NoRow
                  /\ Count(TopicFeatureRows(features, topic_id)) >= min_data_points
               THEN ProphetFits ELSE {NoForecast} :
        \E r \in {forecast_topic(forecasts, features, existing, nextId, clock, topic_id,
                                  horizon_days, force_rebuild, fit)} :
            /\ r.wrote => clock <= MaxWrites
            /\ forecasts' = r.forecasts
            /\ nextId' = IF r.wrote THEN nextId + 1 ELSE nextId
            /\ clock' = IF r.wrote THEN clock + 1 ELSE clock
            /\ last' = [op |-> "prophet_forecast_topic", topic |-> topic_id,
                        horizon |-> horizon_days, force |-> force_rebuild,
                        fit_ok |-> fit # NoForecast,
                        ret |-> r.ret, existing |-> r.existing, fitted |-> r.fitted,
                        wrote |-> r.wrote]
            /\ UNCHANGED <<events, stored, features, topic_name, wk>>

\* one arxiv event a day for the last n days, of alternating magnitude
SeedEvents(topic_id, n) ==
    SetToBag({[topic_id |-> topic_id, day |-> d, source |-> "arxiv",
               magnitude |-> 1 + (d % 2)] : d \in (Today - n + 1)..Today})

\* The tables after a first feature build: one topic has just enough days of
\* events for a forecast, the other one day too few.
InitForecast ==
    /\ events = SeedEvents("t1", min_data_points) (+) SeedEvents("t2", min_data_points - 1)
    /\ stored = Count(events)
    /\ topic_name \in NameMaps
    /\ features = BuildAll(EmptyBag, events, topic_name, TopicOrder, DefaultLookback,
                           FALSE, {}).features
    /\ forecasts = {}
    /\ nextId = 1
    /\ clock = 1
    /\ last = [op |-> "init"]
    /\ wk = [w \in Workers |-> Idle]

NextForecast ==
    \/ \E k \in Keys : BaselineForecast(k[1], k[2])
    \/ ForecastAllTopics
    \/ \E k \in Keys : ProphetForecast(k[1], k[2])
    \/ \E days \in FeatureCleanupChoices : CleanupOldFeatures(days)

SpecForecast == InitForecast /\ [][NextForecast]_vars

(***************************************************************************)
(* Two workers run _forecast_topic_horizon for the same key, each in its   *)
(* own session, their steps interleaved: the read of the existing row      *)
(* (lines 74-81), the fit (84-98), the write to the session (101-124) and  *)
(* the commit (126-133).  A worker's row is the snapshot its session       *)
(* loaded; its commit flushes an INSERT, or an UPDATE of the columns whose *)
(* assigned value differs from the snapshot.                               *)
(***************************************************************************)
WorkerTopic == "t1"
WorkerHorizon == forecast_horizons[1]

\* the fits the workers draw: the statsmodels candidates raise, the trend fit
\* raises or yields any error and level
WorkerFits ==
    {NoFit} \cup
    {f \in FitInputs : /\ f.cands["ARIMA"] = Failed
                       /\ f.cands["ExponentialSmoothing"] = Failed
                       /\ f.cands["Simple"] # Failed}

\* a worker that returned or raised
Done(w, ret, raised, wrote, now) ==
    [pc |-> "done", force |-> wk[w].force, existing |-> wk[w].existing,
     values |-> IF wrote THEN wk[w].values ELSE NoForecast,
     ret |-> ret, raised |-> raised, wrote |-> wrote, committed_at |-> now]

WorkerRead(w, force_rebuild) ==
    /\ wk[w].pc = "idle"
    /\ \E existing \in FirstChoices(forecasts, WorkerTopic, WorkerHorizon) :
          wk' = [wk EXCEPT ![w] =
                    IF SkipForecast(existing, force_rebuild)
                    THEN [pc |-> "done", force |-> force_rebuild, existing |-> existing,
                          values |-> NoForecast, ret |-> 1, raised |-> FALSE,
                          wrote |-> FALSE, committed_at |-> 0]
                    ELSE [pc |-> "read", force |-> force_rebuild, existing |-> existing]]
    /\ UNCHANGED <<events, stored, features, forecasts, topic_name, nextId, clock, last>>

WorkerFit(w) ==
    /\ wk[w].pc = "read"
    /\ \E features_data \in {_get_topic_features_data(features, WorkerTopic)} :
       \E fit \in IF InsufficientData(features_data) THEN {NoFit} ELSE WorkerFits :
       \E forecast_result \in {_generate_forecast(features_data, WorkerHorizon, fit)} :
          wk' = [wk EXCEPT ![w] =
                    IF InsufficientData(features_data) \/ forecast_result = NoForecast
                    THEN [Done(w, 0, FALSE, FALSE, 0) EXCEPT !.values = NoForecast]
                    ELSE [pc |-> "fitted", force |-> wk[w].force,
                          existing |-> wk[w].existing,
                          values |-> NewValues(forecast_result,
                                               _calculate_surge_score(features_data,
                                                                      forecast_result))]]
    /\ UNCHANGED <<events, stored, features, forecasts, topic_name, nextId, clock, last>>

\* the assignments to the loaded row, or db.add: pending in the session
WorkerWrite(w) ==
    /\ wk[w].pc = "fitted"
    /\ wk' = [wk EXCEPT ![w].pc = "written"]
    /\ UNCHANGED <<events, stored, features, forecasts, topic_name, nextId, clock, last>>

WorkerCommit(w, commit_ok) ==
    /\ wk[w].pc = "written"
    /\ IF commit_ok
       THEN /\ forecasts' = WriteForecast(forecasts, wk[w].existing, nextId, WorkerTopic,
                                          WorkerHorizon, wk[w].values, clock)
            /\ nextId' = IF wk[w].existing = NoRow THEN nextId + 1 ELSE nextId
            /\ clock' = clock + 1
            /\ wk' = [wk EXCEPT ![w] = Done(w, 1, FALSE, TRUE, clock)]
       ELSE /\ wk' = [wk EXCEPT ![w] = Done(w, 0, TRUE, FALSE, 0)]
            /\ UNCHANGED <<forecasts, nextId, clock>>
    /\ UNCHANGED <<events, stored, features, topic_name, last>>

\* the fit of the run that wrote the row the workers may find
SeedFit == [cands |-> [c \in CandidateSet |-> IF c = "Simple" THEN 0 ELSE Failed],
            yhat |-> 0]

\* The tables after a first feature build, and either no forecast or the
\* one an earlier baseline run for the key has committed.
InitWorkers ==
    /\ events = SeedEvents(WorkerTopic, min_data_points)
    /\ stored = Count(events)
    /\ topic_name = [t \in Topics |-> IF t = "t1" THEN "n1" ELSE "n2"]
    /\ features = BuildAll(EmptyBag, events, topic_name, TopicOrder, DefaultLookback,
                           FALSE, {}).features
    /\ \E seeded \in BOOLEAN :
          /\ forecasts =
                IF seeded
                THEN _forecast_topic_horizon({}, _get_topic_features_data(features,
                                                                          WorkerTopic),
                                             NoRow, 1, 1, WorkerTopic, WorkerHorizon,
                                             FALSE, SeedFit, TRUE).forecasts
                ELSE {}
          /\ nextId = IF seeded THEN 2 ELSE 1
          /\ clock = IF seeded THEN 2 ELSE 1
    /\ last = [op |-> "init"]
    /\ wk = [w \in Workers |-> Idle]

NextWorkers ==
    \/ \E w \in Workers, force \in BOOLEAN : WorkerRead(w, force)
    \/ \E w \in Workers : WorkerFit(w)
    \/ \E w \in Workers : WorkerWrite(w)
    \/ \E w \in Workers, ok \in BOOLEAN : WorkerCommit(w, ok)

SpecWorkers == InitWorkers /\ [][NextWorkers]_vars

(***************************************************************************)
(* Properties of the feature pipeline.                                     *)
(***************************************************************************)

WindowEventDates(topic_id, days) ==
    EventDates(WindowEvents(events, topic_id, start_date(days)))

\* one vector for each event-day of the topic in the window
Covered(topic_id, days) ==
    \A d \in WindowEventDates(topic_id, days) : RowsAt(features, topic_id, d) = 1

\* C1: a per-topic build with force_rebuild=False that finds a vector of the
\* topic in the window changes no vector of the topic and returns the number
\* of vectors it found, however often it is repeated.
C1_SkipIsNoop ==
    [][(last'.op = "build_feature_matrix" /\ ~last'.force) =>
         \A t \in Topics :
            LET existing == ExistingFeatures(features, t, start_date(last'.days))
            IN  DOMAIN existing # {} =>
                  /\ TopicFeatureRows(features', t) = TopicFeatureRows(features, t)
                  /\ last'.calls[t].ret = Count(existing)
                  /\ ~last'.calls[t].raised]_vars

\* C1 witness: a non-forced build has kept vectors that differ from what the
\* current events would give, and returned their number.
C1_Witness ==
    /\ last.op = "build_feature_matrix"
    /\ ~last.force
    /\ \E t \in Topics :
          /\ last.calls[t].skipped
          /\ last.calls[t].ret >= 1
          /\ ExistingFeatures(features, t, start_date(last.days))
               # FeatureRecords(t, WindowEvents(events, t, start_date(last.days)))

\* C2: after a forced rebuild of a topic and window that did not raise, the
\* vectors of the topic stored inside the window are exactly the set computed
\* from the current events (old vectors absent from the new set are gone).
C2_ForcedRebuildReplaces ==
    (last.op = "rebuild_topic_features" /\ ~last.raised) =>
        ExistingFeatures(features, last.topic, start_date(last.days))
          = FeatureRecords(last.topic,
                           WindowEvents(events, last.topic, start_date(last.days)))

\* C3 as claimed: after every completed build, forced or not, every event-day
\* of the topic in the window has exactly one vector.
C3_EveryBuildCovers ==
    /\ \A t \in Topics, d \in 0..Today : RowsAt(features, t, d) <= 1
    /\ (last.op = "rebuild_topic_features" /\ ~last.raised)
          => Covered(last.topic, last.days)
    /\ last.op = "build_feature_matrix"
          => \A t \in Topics : ~last.calls[t].raised => Covered(t, last.days)

\* C3 as amended: after every completed build that was not skipped (it was
\* forced, or no vector of the topic existed in the window), every event-day
\* of the topic in the window has exactly one vector; and no (topic_id, date)
\* ever has two vectors.
C3_UnskippedBuildCovers ==
    /\ \A t \in Topics, d \in 0..Today : RowsAt(features, t, d) <= 1
    /\ (last.op = "rebuild_topic_features" /\ ~last.raised)
          => Covered(last.topic, last.days)
    /\ last.op = "build_feature_matrix"
          => \A t \in Topics :
                (~last.calls[t].raised /\ ~last.calls[t].skipped) => Covered(t, last.days)

\* C3 witness: a forced build has replaced the vectors of a topic that has
\* events on two days of the window.
C3_Witness ==
    /\ last.op = "build_feature_matrix"
    /\ last.force
    /\ \E t \in Topics :
          /\ ~last.calls[t].raised
          /\ last.calls[t].ret >= 2
          /\ Cardinality(WindowEventDates(t, last.days)) >= 2

\* C9: build_feature_matrix returns one entry per topic; a topic whose build
\* raises is reported as 0 and the others are still processed; a topic with no
\* event in the window is reported as 0 and is not an error.
C9_BuildMatrixResults ==
    last.op = "build_feature_matrix" =>
        /\ DOMAIN last.calls = Topics
        /\ Cardinality(DOMAIN last.results) = Cardinality(Topics)
        /\ \A t \in Topics :
              /\ last.calls[t].raised => last.results[topic_name[t]] = 0
              /\ WindowEventDates(t, last.days) = {}
                    => (last.results[topic_name[t]] = 0 /\ ~last.calls[t].raised)

(***************************************************************************)
(* Properties of the forecast operations.                                  *)
(***************************************************************************)
\* the rows _get_topic_features_data reads for a topic
WindowFeatureCount(topic_id) ==
    Count(ExistingFeatures(features, topic_id, start_date(DefaultLookback)))

C5_OneRecordPerKeyOverwritten ==
    /\ [](\A k \in Keys : Cardinality(KeyForecasts(forecasts, k[1], k[2])) <= 1)
    /\ [][(/\ last'.op = "forecast_topic_horizon"
            /\ last'.force /\ last'.wrote
            /\ KeyForecasts(forecasts, last'.topic, last'.horizon) # {})
           => \E old \in KeyForecasts(forecasts, last'.topic, last'.horizon),
                 new \in KeyForecasts(forecasts', last'.topic, last'.horizon) :
                 /\ forecasts' \ {new} = forecasts \ {old}
                 /\ new.id = old.id
                 /\ \A c \in ForecastColumns : new[c] = last'.values[c]]_vars

\* a forced refit has just overwritten a record written earlier with
\* another curve
C5_Witness ==
    /\ last.op = "forecast_topic_horizon"
    /\ last.force /\ last.wrote
    /\ \E r \in KeyForecasts(forecasts, last.topic, last.horizon) :
          /\ r.updated_at > r.created_at
          /\ r.forecast_curve = last.values.forecast_curve
          /\ r.forecast_curve[1] > 0

\* C7: a Prophet call without force for a key whose only records are
\* baseline records, for a topic with at least min_data_points feature rows
\* and with a fit that succeeds, adds one Prophet record for the key, leaves
\* the other records unchanged and reports a forecast.
C7_ProphetInsertsBesideBaseline ==
    [][(/\ last'.op = "prophet_forecast_topic"
        /\ ~last'.force
        /\ KeyForecasts(forecasts, last'.topic, last'.horizon) # {}
        /\ ProphetExisting(forecasts, last'.topic, last'.horizon) = {}
        /\ Count(TopicFeatureRows(features, last'.topic)) >= min_data_points
        /\ last'.fit_ok)
       => /\ \E new \in forecasts' \ forecasts :
                /\ forecasts' = forecasts \cup {new}
                /\ new.topic_id = last'.topic
                /\ new.horizon_days = last'.horizon
                /\ new.model_type = "Prophet"
          /\ last'.ret # NoRow.id]_vars

\* C8: forecast_all_topics returns one entry per topic, and every record
\* written during the run is counted under its topic and horizon in the map
\* returned.
C8_BatchTallyComplete ==
    last.op = "forecast_all_topics" =>
        /\ Cardinality(DOMAIN last.results) = Cardinality(Topics)
        /\ \A k \in last.written :
              /\ ~last.results[topic_name[k[1]]].error
              /\ last.results[topic_name[k[1]]].counts[k[2]] = 1

\* C10 (as amended): a baseline call for a topic with fewer than
\* min_data_points feature rows in its window does not raise and changes no
\* record; it returns 0, unless it found a record and force_rebuild was not
\* requested, in which case it returns 1.
C10_InsufficientDataWritesNothing ==
    [][(/\ last'.op = "forecast_topic_horizon"
        /\ WindowFeatureCount(last'.topic) < min_data_points)
       => /\ forecasts' = forecasts
          /\ ~last'.raised /\ ~last'.wrote
          /\ last'.ret =
                IF ~last'.force /\ KeyForecasts(forecasts, last'.topic, last'.horizon) # {}
                THEN 1 ELSE 0]_vars

\* a baseline call has just returned 0 for a topic short of feature rows
C10_Witness ==
    /\ last.op = "forecast_topic_horizon"
    /\ WindowFeatureCount(last.topic) < min_data_points
    /\ WindowFeatureCount(last.topic) > 0
    /\ last.ret = 0 /\ ~last.raised /\ ~last.wrote

\* C10 as stated: a baseline call for a topic with fewer than
\* min_data_points feature rows returns 0, does not raise and changes no
\* record.
C10_InsufficientDataReturnsZero ==
    [][(/\ last'.op = "forecast_topic_horizon"
        /\ WindowFeatureCount(last'.topic) < min_data_points)
       => /\ forecasts' = forecasts
          /\ ~last'.raised /\ ~last'.wrote
          /\ last'.ret = 0]_vars

(***************************************************************************)
(* Properties of concurrent baseline forecasts.                            *)
(***************************************************************************)
\* C6: when two workers have run the baseline forecast for the same key
\* concurrently and at least one has committed, the table holds exactly one
\* record for the key, and its six result columns are the values of the fit
\* of the worker that committed last.
C6_ConcurrentSameKeyOneFit ==
    (/\ \A w \in Workers : wk[w].pc = "done"
     /\ \E w \in Workers : wk[w].wrote)
    => LET rows == KeyForecasts(forecasts, WorkerTopic, WorkerHorizon)
           winner == CHOOSE w \in Workers :
                        /\ wk[w].wrote
                        /\ \A v \in Workers :
                              wk[v].wrote => wk[v].committed_at <= wk[w].committed_at
       IN  /\ Cardinality(rows) = 1
           /\ \A r \in rows : \A c \in ForecastColumns : r[c] = wk[winner].values[c]

(***************************************************************************)
(* Model selection: one baseline request on the tables of a first feature  *)
(* build, with every outcome of the three candidate fits.                  *)
(***************************************************************************)
\* the candidates of a fit that yield a result
Available(fit) == {c \in CandidateSet : fit.cands[c] # Failed}

\* The request drawn: a key, force_rebuild and, when the call reaches the
\* fits, their outcomes.  The key may hold the record of an earlier run.
InitSelect ==
    /\ events = SeedEvents("t1", min_data_points) (+) SeedEvents("t2", min_data_points - 1)
    /\ stored = Count(events)
    /\ topic_name = [t \in Topics |-> IF t = "t1" THEN "n1" ELSE "n2"]
    /\ features = BuildAll(EmptyBag, events, topic_name, TopicOrder, DefaultLookback,
                           FALSE, {}).features
    /\ \E seeded \in BOOLEAN :
          /\ forecasts =
                IF seeded
                THEN _forecast_topic_horizon({}, _get_topic_features_data(features,
                                                                          WorkerTopic),
                                             NoRow, 1, 1, WorkerTopic, WorkerHorizon,
                                             FALSE, SeedFit, TRUE).forecasts
                ELSE {}
          /\ nextId = IF seeded THEN 2 ELSE 1
          /\ clock = IF seeded THEN 2 ELSE 1
    /\ \E k \in Keys, force_rebuild \in BOOLEAN :
       \E fit \in IF /\ ~SkipForecast(First(forecasts, k[1], k[2]), force_rebuild)
                     /\ ~InsufficientData(_get_topic_features_data(features, k[1]))
                  THEN FitInputs ELSE {NoFit} :
          last = [op |-> "request", topic |-> k[1], horizon |-> k[2],
                  force |-> force_rebuild, fit |-> fit]
    /\ wk = [w \in Workers |-> Idle]

\* _forecast_topic_horizon for the request drawn
ForecastRequest ==
    /\ last.op = "request"
    /\ \E features_data \in {_get_topic_features_data(features, last.topic)},
          existing \in FirstChoices(forecasts, last.topic, last.horizon) :
       \E commit_ok \in IF Available(last.fit) # {} THEN BOOLEAN ELSE {TRUE} :
       \E r \in {_forecast_topic_horizon(forecasts, features_data, existing, nextId,
                                          clock, last.topic, last.horizon, last.force,
                                          last.fit, commit_ok)} :
            /\ forecasts' = r.forecasts
            /\ nextId' = IF r.wrote /\ existing = NoRow THEN nextId + 1 ELSE nextId
            /\ clock' = IF r.wrote THEN clock + 1 ELSE clock
            /\ last' = [op |-> "forecast_topic_horizon", topic |-> last.topic,
                        horizon |-> last.horizon, force |-> last.force,
                        fit |-> last.fit, ret |-> r.ret, raised |-> r.raised,
                        fitted |-> r.fitted, wrote |-> r.wrote, values |-> r.values]
            /\ UNCHANGED <<events, stored, features, topic_name, wk>>

NextSelect == ForecastRequest

SpecSelect == InitSelect /\ [][NextSelect]_vars

(***************************************************************************)
(* Properties of model selection.                                          *)
(***************************************************************************)
\* C11: a candidate that yields no result is passed over: when the fits are
\* reached and at least one candidate yields a result, a forecast of one of
\* the candidates that did is selected (and written unless the commit
\* fails); only when no candidate yields a result is there no forecast, and
\* then the call returns 0, does not raise and writes nothing.
C11_FailedCandidateSkipped ==
    (last.op = "forecast_topic_horizon" /\ last.fitted) =>
        /\ (Available(last.fit) # {} /\ ~last.raised) =>
              /\ last.wrote /\ last.ret = 1
              /\ last.values.model_type \in {ModelType(c) : c \in Available(last.fit)}
        /\ Available(last.fit) = {} =>
              /\ last.ret = 0 /\ ~last.raised /\ ~last.wrote
              /\ last.values = NoForecast
        /\ (~last.wrote /\ ~last.raised) => Available(last.fit) = {}

\* the first candidate raised and a later one was selected and written
C11_Witness ==
    /\ last.op = "forecast_topic_horizon"
    /\ last.fitted /\ last.wrote
    /\ last.fit.cands["ARIMA"] = Failed
    /\ last.fit.cands["ExponentialSmoothing"] # Failed
    /\ last.values.model_type \in {"ExponentialSmoothing", "LinearTrend"}

\* C12: the forecast selected is that of the first candidate, in the order
\* ARIMA, ExponentialSmoothing, Simple, whose in-sample MAE no available
\* candidate undercuts: on a tie the earlier candidate is kept.
C12_LowestMaeEarliestWins ==
    (last.op = "forecast_topic_horizon" /\ last.wrote) =>
        \E i \in 1..Len(Candidates) :
            /\ Candidates[i] \in Available(last.fit)
            /\ last.values.model_type = ModelType(Candidates[i])
            /\ last.values.model_metrics.mae = last.fit.cands[Candidates[i]] * MaeUnit
            /\ \A j \in 1..Len(Candidates) :
                  Candidates[j] \in Available(last.fit) =>
                     /\ last.fit.cands[Candidates[i]] <= last.fit.cands[Candidates[j]]
                     /\ j < i => last.fit.cands[Candidates[i]] < last.fit.cands[Candidates[j]]

\* two candidates tie on the lowest MAE and the earlier one was selected
C12_Witness ==
    /\ last.op = "forecast_topic_horizon"
    /\ last.wrote
    /\ last.fit.cands["ARIMA"] # Failed
    /\ last.fit.cands["ExponentialSmoothing"] # Failed
    /\ last.fit.cands["ExponentialSmoothing"] = last.fit.cands["Simple"]
    /\ last.fit.cands["ExponentialSmoothing"] < last.fit.cands["ARIMA"]
    /\ last.values.model_type = "ExponentialSmoothing"

\* C14: the curve of the forecast selected, and the curve of every stored
\* record, has exactly horizon_days points.
C14_CurveLengthIsHorizon ==
    /\ \A r \in forecasts : Len(r.forecast_curve) = r.horizon_days
    /\ (last.op = "forecast_topic_horizon" /\ last.wrote) =>
          Len(last.values.forecast_curve) = last.horizon

\* a record of each horizon's length has been written over or beside another
C14_Witness ==
    /\ last.op = "forecast_topic_horizon"
    /\ last.wrote
    /\ last.horizon > WorkerHorizon
    /\ \E r \in forecasts :
          r.horizon_days = last.horizon /\ Len(r.forecast_curve) = last.horizon

(***************************************************************************)
(* The scores of a forecast record, for feature values, curves and surge   *)
(* weights at the extremes.                                                *)
(***************************************************************************)
VBig == 20
WBig == 50

\* a stored feature row of one arxiv event with the given time-series columns
FeatureRow(topic_id, date, velocity, acceleration, z_spike, convergence) ==
    [topic_id |-> topic_id, date |-> date,
     mention_count_total |-> 1, mention_count_arxiv |-> 1, mention_count_github |-> 0,
     mention_count_jobs |-> 0, mention_count_funding |-> 0,
     magnitude_sum |-> 1, unique_sources |-> 1,
     velocity |-> velocity, acceleration |-> acceleration,
     z_spike |-> z_spike, convergence |-> convergence]

\* ProphetForecaster._calculate_velocity_growth over the recent rows
_calculate_velocity_growth(rows) ==
    LET recent_velocity == rows[Len(rows)].velocity
        earlier_velocity == rows[1].velocity
    IN  IF Len(rows) < 2 \/ earlier_velocity = 0 THEN 0
        ELSE ((recent_velocity - earlier_velocity) * Scale) \div earlier_velocity

\* ProphetForecaster._calculate_z_spike: (z + 2) / 4 of the latest velocity
\* against the population mean and deviation, clamped to [0, 1]
_calculate_z_spike(rows) ==
    LET n == Len(rows)
        sum == SumSeq([i \in 1..n |-> rows[i].velocity])
        dev2 == SumSeq([i \in 1..n |->
                          (n * rows[i].velocity - sum) * (n * rows[i].velocity - sum)])
        nstd == ISqrt(dev2 \div n)
    IN  IF n < 3 \/ nstd = 0 THEN 0
        ELSE Min2(Scale, Max2(0, (((n * rows[n].velocity - sum) * Scale) \div nstd
                                    + 2 * Scale) \div 4))

\* ProphetForecaster._calculate_convergence: the fixed value 0.7
_calculate_convergence == (7 * Scale) \div 10

\* math.exp of a whole number, saturated at the cap: beyond it the sigmoid
\* is within one unit of the scale of its limit
e_num == 2718
e_den == 1000
ExpCap == 7
OverflowAt == 709

RECURSIVE ExpFp(_)
ExpFp(n) == IF n = 0 THEN Scale ELSE (ExpFp(n - 1) * e_num) \div e_den

\* 1 / (1 + math.exp(-x)) for x in units of the scale
Sigmoid(x) ==
    LET n == x \div Scale
    IN  IF n >= 0
        THEN (Scale * ExpFp(Min2(n, ExpCap))) \div (ExpFp(Min2(n, ExpCap)) + Scale)
        ELSE (Scale * Scale) \div (Scale + ExpFp(Min2(0 - n, ExpCap)))

\* ProphetForecaster._calculate_surge_score: the weights of the settings, 0.1
\* for the confidence they do not name; math.exp raises OverflowError for an
\* argument above its range
ProphetSurgeScore(weights, velocity_growth, z_spike, convergence, confidence) ==
    LET weighted_sum ==
            (weights.velocity_growth * velocity_growth + weights.z_spike * z_spike
               + weights.convergence * convergence + 1 * confidence) \div w_den
    IN  [raised |-> 0 - weighted_sum * 5 > OverflowAt * Scale,
         surge_score |-> Sigmoid(weighted_sum * 5)]

\* max(0.0, min(1.0, 1.0 - avg_interval_width / (avg_value + 1.0))); the
\* division by zero of numpy floats yields inf or nan, and min(1.0, nan) is 1.0
ProphetConfidence(avg_interval_width, avg_value) ==
    IF avg_value + Scale = 0
    THEN (IF avg_interval_width > 0 THEN 0 ELSE Scale)
    ELSE Max2(0, Min2(Scale, Scale - ((avg_interval_width * Scale)
                                        \div (avg_value + Scale))))

ExtremeValues == {0 - VBig * Scale, 0, VBig * Scale}
WeightConfigs ==
    {surge_score_weights} \cup
    [velocity_growth : {0 - WBig, WBig}, momentum : {0 - WBig, WBig},
     z_spike : {0 - WBig, WBig}, convergence : {0 - WBig, WBig}]

\* The inputs drawn: two feature rows of a topic, the later one at the
\* extremes, the weights, and the error and level of a fit.
InitScores ==
    /\ events = EmptyBag
    /\ stored = 0
    /\ topic_name = [t \in Topics |-> IF t = "t1" THEN "n1" ELSE "n2"]
    /\ \E v1 \in {0, Scale \div 10}, velocity \in ExtremeValues,
          acceleration \in ExtremeValues \ {0}, z_spike \in ExtremeValues \ {0},
          convergence \in ExtremeValues :
          features = SetToBag({FeatureRow("t1", Today - 1, v1, 0, 0, 0),
                               FeatureRow("t1", Today, velocity, acceleration, z_spike,
                                          convergence)})
    /\ forecasts = {}
    /\ nextId = 1
    /\ clock = 1
    /\ \E weights \in WeightConfigs, mae \in 0..MaxMae, yhat \in 0..MaxYhat :
          last = [op |-> "scores_request", weights |-> weights, mae |-> mae,
                  yhat |-> yhat]
    /\ wk = [w \in Workers |-> Idle]

\* the scores the baseline gives the record of the fit drawn
BaselineScores ==
    /\ last.op = "scores_request"
    /\ \E features_data \in {_get_topic_features_data(features, "t1")} :
       \E forecast_result \in
             {CandidateResult("Simple", last.mae, last.yhat,
                              [i \in 1..Len(features_data) |-> features_data[i].velocity],
                              forecast_horizons[1])} :
          last' = [op |-> "baseline_scores",
                   surge_score |-> SurgeScoreWith(last.weights, features_data,
                                                  forecast_result),
                   confidence_score |-> forecast_result.confidence_score]
    /\ UNCHANGED <<events, stored, features, forecasts, topic_name, nextId, clock, wk>>

\* the scores Prophet gives the record of a fit with the interval width and
\* curve level drawn, or the exception of the surge score
ProphetScores ==
    /\ last.op = "scores_request"
    /\ \E rows \in {RowSeq(TopicFeatureRows(features, "t1"))},
          avg_interval_width \in {0, Scale},
          avg_value \in {0 - Scale, last.yhat * Scale} :
       \E confidence_score \in {ProphetConfidence(avg_interval_width, avg_value)} :
       \E r \in {ProphetSurgeScore(last.weights, _calculate_velocity_growth(rows),
                                   _calculate_z_spike(rows), _calculate_convergence,
                                   confidence_score)} :
          last' = [op |-> "prophet_scores", raised |-> r.raised,
                   surge_score |-> r.surge_score,
                   confidence_score |-> confidence_score]
    /\ UNCHANGED <<events, stored, features, forecasts, topic_name, nextId, clock, wk>>

NextScores == BaselineScores \/ ProphetScores

SpecScores == InitScores /\ [][NextScores]_vars

(***************************************************************************)
(* Properties of the scores.                                               *)
(***************************************************************************)
\* C13: the surge score and the confidence score either family computes for
\* a record lie in [0, 1] for any feature values, any curve and any weights;
\* a Prophet call whose surge score raises produces no record.
C13_ScoresWithinUnitInterval ==
    /\ last.op = "baseline_scores" =>
          /\ last.surge_score \in 0..Scale
          /\ last.confidence_score \in 0..Scale
    /\ (last.op = "prophet_scores" /\ ~last.raised) =>
          /\ last.surge_score \in 0..Scale
          /\ last.confidence_score \in 0..Scale
    /\ \A r \in forecasts :
          r.surge_score \in 0..Scale /\ r.confidence_score \in 0..Scale

\* a baseline surge score was clamped at 1 under large positive weights and
\* a velocity far below the curve
C13_Witness ==
    /\ last.op = "baseline_scores"
    /\ last.surge_score = Scale
    /\ \E f \in DOMAIN features : f.date = Today /\ f.velocity < 0


\* ---------------------------------------------------------------------
\* SurgeRanker: the ranking of the forecast records of one horizon
\* ---------------------------------------------------------------------

RankedTopics == {"t1", "t2", "t3"}

\* the weights of the ranking score, in tenths
ranking_weights == [surge_score |-> 4, confidence |-> 2, recent_velocity |-> 2, convergence |-> 1, growth_rate |-> 1]
ranking_den == 10

\* a ranking score of 1.0: weights in tenths, the bonus and the penalty in
\* tenths each, over values of Scale per 1.0
RankOne == Scale * ranking_den * 10 * 10

default_limit == 20
recent_feature_days == 7
velocity_norm == 10
bonus_num == 11
penalty_num == 8
factor_den == 10
convergence_bonus_above == (7 * Scale) \div 10
confidence_penalty_below == (3 * Scale) \div 10
high_surge_above == (8 * Scale) \div 10
low_confidence_below == (4 * Scale) \div 10
high_growth_above == Scale

\* the growth rate of a curve without two points
NoGrowth == 0 - (1000 * Scale)

\* TopicForecast.forecast_growth_rate
forecast_growth_rate(forecast_curve) ==
    IF Len(forecast_curve) < 2 THEN NoGrowth
    ELSE IF forecast_curve[1] = 0 THEN 0
    ELSE IF forecast_curve[1] > 0
    THEN ((forecast_curve[Len(forecast_curve)] - forecast_curve[1]) * Scale) \div forecast_curve[1]
    ELSE ((forecast_curve[1] - forecast_curve[Len(forecast_curve)]) * Scale) \div (0 - forecast_curve[1])

\* "x or 0" of a growth rate
OrZero(growth_rate) == IF growth_rate = NoGrowth THEN 0 ELSE growth_rate

NoRecent == [present |-> FALSE, velocity |-> 0, acceleration |-> 0, convergence |-> 0, z_spike |-> 0, mention_count |-> 0]

\* SurgeRanker._get_recent_features: the latest row of the topic dated within
\* the last days, as a dict, or the empty dict
_get_recent_features(feat, topic_id, days) ==
    LET rows == {r \in DOMAIN TopicFeatureRows(feat, topic_id) : r.date >= Today - days}
    IN IF rows = {} THEN NoRecent
       ELSE LET r == CHOOSE x \in rows : \A y \in rows : y.date <= x.date
            IN [present |-> TRUE, velocity |-> r.velocity,
                acceleration |-> r.acceleration, convergence |-> r.convergence,
                z_spike |-> r.z_spike, mention_count |-> r.mention_count_total]

\* recent_features.get(key, 0)
Get0(recent_features, key) == IF recent_features.present THEN recent_features[key] ELSE 0

AtLeastHighConvergence(recent_convergence) == recent_convergence >= convergence_bonus_above

\* the test of the bonus
HighConvergence(recent_convergence) == recent_convergence > convergence_bonus_above

AtMostLowConfidence(confidence) == confidence <= confidence_penalty_below

\* the test of the penalty
LowConfidence(confidence) == confidence < confidence_penalty_below

\* the weighted composite score before the bonus and the penalty, in
\* units of Scale * ranking_den per 1.0
WeightedSum(surge_score, confidence, recent_velocity, recent_convergence, growth_rate) ==
    LET velocity_score == Min2(Scale, Max2(0, recent_velocity \div velocity_norm))
        growth_score == Min2(Scale, Max2(0, growth_rate))
    IN ranking_weights.surge_score * surge_score
       + ranking_weights.confidence * confidence
       + ranking_weights.recent_velocity * velocity_score
       + ranking_weights.convergence * recent_convergence
       + ranking_weights.growth_rate * growth_score

\* SurgeRanker._calculate_ranking_score, in units of RankOne per 1.0
_calculate_ranking_score(forecast, recent_features) ==
    LET surge_score == forecast.surge_score
        confidence == forecast.confidence_score
        recent_velocity == Get0(recent_features, "velocity")
        recent_convergence == Get0(recent_features, "convergence")
        growth_rate == OrZero(forecast_growth_rate(forecast.forecast_curve))
        ranking_score == WeightedSum(surge_score, confidence, recent_velocity, recent_convergence, growth_rate)
    IN ranking_score
       * (IF HighConvergence(recent_convergence) THEN bonus_num ELSE factor_den)
       * (IF LowConfidence(confidence) THEN penalty_num ELSE factor_den)

\* the entry rank_topics appends for one forecast record
TopicScore(forecast, names, feat) ==
    LET recent_features == _get_recent_features(feat, forecast.topic_id, recent_feature_days)
    IN [topic_id |-> forecast.topic_id,
        topic_name |-> names[forecast.topic_id],
        ranking_score |-> _calculate_ranking_score(forecast, recent_features),
        surge_score |-> forecast.surge_score,
        confidence |-> forecast.confidence_score,
        model_type |-> forecast.model_type,
        growth_rate |-> forecast_growth_rate(forecast.forecast_curve),
        recent_velocity |-> Get0(recent_features, "velocity"),
        recent_convergence |-> Get0(recent_features, "convergence"),
        forecast_curve |-> forecast.forecast_curve,
        rank |-> 0]

\* the loop of rank_topics over the records the query returned; a record
\* whose topic is gone is passed over
RECURSIVE TopicScores(_, _, _)
TopicScores(rows, names, feat) ==
    IF rows = <<>> THEN <<>>
    ELSE LET forecast == rows[Len(rows)]
             before == TopicScores(SubSeq(rows, 1, Len(rows) - 1), names, feat)
         IN IF forecast.topic_id \in DOMAIN names
            THEN Append(before, TopicScore(forecast, names, feat))
            ELSE before

\* list.sort(key = ranking_score, reverse = True): a stable sort, entries of
\* equal score keep their order
InsertDescending(sorted, entry) ==
    LET k == Cardinality({i \in 1..Len(sorted) : sorted[i].ranking_score >= entry.ranking_score})
    IN SubSeq(sorted, 1, k) \o <<entry>> \o SubSeq(sorted, k + 1, Len(sorted))

RECURSIVE SortDescending(_)
SortDescending(topic_scores) ==
    IF topic_scores = <<>> THEN <<>>
    ELSE InsertDescending(SortDescending(SubSeq(topic_scores, 1, Len(topic_scores) - 1)), topic_scores[Len(topic_scores)])

\* the rank numbers of the entries returned
Numbered(entries) == [i \in 1..Len(entries) |-> [entries[i] EXCEPT !.rank = i]]

LeaderboardOfFirst(topic_scores, limit) ==
    Numbered(SortDescending(SubSeq(topic_scores, 1, Min2(limit, Len(topic_scores)))))

\* sort, number and slice: topic_scores[:limit] after the sort
Leaderboard(topic_scores, limit) ==
    Numbered(SubSeq(SortDescending(topic_scores), 1, Min2(limit, Len(topic_scores))))

\* SurgeRanker.rank_topics over the records of the horizon in the order the
\* query returned them
rank_topics(rows, names, feat, limit) ==
    IF rows = <<>> THEN <<>> ELSE Leaderboard(TopicScores(rows, names, feat), limit)

\* the orders in which a query without ORDER BY can return a set of records
Orders(S) == {seq \in [1..Cardinality(S) -> S] : \A i, j \in 1..Cardinality(S) : i # j => seq[i] # seq[j]}

BottomEntry(rankings) == rankings[Len(rankings)]

\* the entry the alerts are about
TopEntry(rankings) == rankings[1]

Alert(type, severity, top_topic, value) == [type |-> type, severity |-> severity, topic_id |-> top_topic.topic_id, value |-> value]

\* SurgeRanker.get_ranking_alerts; building an alert reads the topic_name
\* and the topic_id of the entry, and the KeyError of an entry without one
\* is caught with every other exception: the call then returns no alert
get_ranking_alerts(rankings) ==
    IF rankings = <<>> THEN <<>>
    ELSE LET top_topic == TopEntry(rankings)
             high_surge == top_topic.surge_score > high_surge_above
             low_confidence == top_topic.confidence < low_confidence_below
             high_growth == OrZero(top_topic.growth_rate) # 0 /\ top_topic.growth_rate > high_growth_above
         IN IF (high_surge \/ low_confidence \/ high_growth) /\ ~({"topic_name", "topic_id"} \subseteq DOMAIN top_topic)
            THEN <<>>
            ELSE (IF high_surge
                  THEN <<Alert("high_surge", "high", top_topic, top_topic.surge_score)>>
                  ELSE <<>>)
                 \o (IF low_confidence
                     THEN <<Alert("low_confidence", "medium", top_topic, top_topic.confidence)>>
                     ELSE <<>>)
                 \o (IF high_growth
                     THEN <<Alert("high_growth", "high", top_topic, top_topic.growth_rate)>>
                     ELSE <<>>)

\* the rankings a caller hands to get_ranking_alerts without a call of
\* rank_topics: the list of test_get_ranking_alerts
CallerRankings == {<<[topic_name |-> "AI", surge_score |-> (9 * Scale) \div 10, confidence |-> (3 * Scale) \div 10, growth_rate |-> (15 * Scale) \div 10]>>}

\* the surge and confidence scores of the records drawn
Profiles == [A |-> <<(9 * Scale) \div 10, (3 * Scale) \div 10>>, B |-> <<(7 * Scale) \div 10, (9 * Scale) \div 10>>, C |-> <<(6 * Scale) \div 10, (7 * Scale) \div 10>>, D |-> <<Scale, Scale>>, E |-> <<(8 * Scale) \div 10, (2 * Scale) \div 10>>]

\* the first and last value of the curves drawn; the empty curve is the
\* record without points
CurveShapes == {<<0, 1>>, <<1, 2>>, <<1, 3>>, <<2, 3>>}

RankedCurve(shape, horizon_days) == [i \in 1..horizon_days |-> IF i = 1 THEN shape[1] * Scale ELSE shape[2] * Scale]

RankedForecast(id, topic_id, profile, forecast_curve) ==
    InsertedForecast(id, topic_id, forecast_horizons[1],
                     [forecast_curve |-> forecast_curve,
                      surge_score |-> Profiles[profile][1],
                      confidence_score |-> Profiles[profile][2],
                      model_type |-> "Simple", model_params |-> <<>>,
                      model_metrics |-> [mae |-> 0, mse |-> 0]], 1)

\* the feature rows drawn for every topic: none, one older than the window,
\* one on the first day of the window, or two rows of the window
RecentRows(topic_id, choice) ==
    CASE choice = "none" -> {}
      [] choice = "old" -> {FeatureRow(topic_id, Today - recent_feature_days - 1, VBig * Scale, 0, 0, Scale)}
      [] choice = "edge" -> {FeatureRow(topic_id, Today - recent_feature_days, (velocity_norm \div 2) * Scale, 0, 0, convergence_bonus_above)}
      [] choice = "high" -> {FeatureRow(topic_id, Today - recent_feature_days, 0, 0, 0, 0),
                             FeatureRow(topic_id, Today - 1, VBig * Scale, 0, 0, Scale)}

RecentChoices == {"none", "old", "edge", "high"}

InitRanker ==
    /\ events = EmptyBag
    /\ stored = 0
    /\ topic_name = [t \in RankedTopics |-> IF t = "t1" THEN "n1" ELSE IF t = "t2" THEN "n2" ELSE "n3"]
    /\ \E choice \in RecentChoices :
          features = SetToBag(UNION {RecentRows(t, choice) : t \in RankedTopics})
    /\ \E p1 \in DOMAIN Profiles, p2 \in {"B", "D", "A"}, p3 \in {"C", "A"},
          forecast_curve \in {RankedCurve(shape, forecast_horizons[1]) : shape \in CurveShapes} \cup {<<>>} :
          forecasts = {RankedForecast(1, "t1", p1, forecast_curve),
                       RankedForecast(2, "t2", p2, forecast_curve),
                       RankedForecast(3, "t3", p3, forecast_curve)}
    /\ nextId = 4
    /\ clock = 1
    /\ last = [op |-> "init"]
    /\ wk = [w \in Workers |-> Idle]

\* rank_topics(horizon_days, limit)
RankTopics(horizon_days, limit) ==
    /\ last.op = "init"
    /\ \E rows \in Orders({f \in forecasts : f.horizon_days = horizon_days}) :
       \E topic_scores \in {TopicScores(rows, topic_name, features)} :
          last' = [op |-> "rank_topics", horizon_days |-> horizon_days,
                   limit |-> limit, topic_scores |-> topic_scores,
                   rankings |-> rank_topics(rows, topic_name, features, limit)]
    /\ UNCHANGED <<events, stored, features, forecasts, topic_name, nextId, clock, wk>>

\* get_ranking_alerts(rankings) over the rankings rank_topics returned, or
\* over the list of a caller that never ranked
GetRankingAlerts ==
    /\ last.op \in {"init", "rank_topics"}
    /\ \E rankings \in (IF last.op = "rank_topics" THEN {last.rankings} ELSE CallerRankings) :
          last' = [op |-> "get_ranking_alerts", rankings |-> rankings,
                   alerts |-> get_ranking_alerts(rankings)]
    /\ UNCHANGED <<events, stored, features, forecasts, topic_name, nextId, clock, wk>>

Limits == {1, 2, default_limit}

NextRanker ==
    \/ \E horizon_days \in Horizons, limit \in Limits : RankTopics(horizon_days, limit)
    \/ GetRankingAlerts

SpecRanker == InitRanker /\ [][NextRanker]_vars


\* entry a of the scored list comes before entry b in the full ordering:
\* a higher score, or the same score and an earlier place in the input
ComesBefore(topic_scores, a, b) ==
    \/ topic_scores[a].ranking_score > topic_scores[b].ranking_score
    \/ /\ topic_scores[a].ranking_score = topic_scores[b].ranking_score
       /\ a < b

\* the place of entry a in the full ordering
PlaceOf(topic_scores, a) == 1 + Cardinality({b \in 1..Len(topic_scores) : ComesBefore(topic_scores, b, a)})

\* C15: rank_topics scores every forecast record of the requested horizon,
\* orders all of them by ranking_score descending with entries of equal score
\* in input order, and only then truncates: the result is the first limit
\* entries of the full ordering with the ranks 1..k, and no entry left out has
\* a higher ranking_score than one returned.
C15_SortThenTruncate ==
    last.op = "rank_topics" =>
        LET topic_scores == last.topic_scores
            n == Len(topic_scores)
            k == Min2(last.limit, n)
            rankings == last.rankings
        IN /\ {topic_scores[a].topic_id : a \in 1..n} = {f.topic_id : f \in {g \in forecasts : g.horizon_days = last.horizon_days}}
           /\ n = Cardinality({g \in forecasts : g.horizon_days = last.horizon_days})
           /\ Len(rankings) = k
           /\ \A i \in 1..k : rankings[i].rank = i
           /\ \A a \in 1..n :
                 IF PlaceOf(topic_scores, a) <= k
                 THEN rankings[PlaceOf(topic_scores, a)] = [topic_scores[a] EXCEPT !.rank = PlaceOf(topic_scores, a)]
                 ELSE \A i \in 1..k : topic_scores[a].ranking_score <= rankings[i].ranking_score

\* a ranking of three scored records cut to two, where the record scored
\* last has the highest score and two records tie
C15_Witness ==
    /\ last.op = "rank_topics"
    /\ Len(last.topic_scores) = 3
    /\ Len(last.rankings) = 2
    /\ last.topic_scores[3].ranking_score > last.topic_scores[1].ranking_score
    /\ last.topic_scores[1].ranking_score = last.topic_scores[2].ranking_score
    /\ last.rankings[1].topic_id = last.topic_scores[3].topic_id
    /\ last.rankings[2].topic_id = last.topic_scores[1].topic_id


\* the feature rows of a topic dated within the window of the ranker
RowsInWindow(topic_id) == {r \in DOMAIN features : r.topic_id = topic_id /\ r.date >= Today - recent_feature_days}

\* the ranking score the formula gives the values an entry reports, in units
\* of RankOne per 1.0
ScoreOfEntry(entry) ==
    LET clampedVelocity == IF entry.recent_velocity \div 10 < 0 THEN 0 ELSE IF entry.recent_velocity \div 10 > Scale THEN Scale ELSE entry.recent_velocity \div 10
        growth == IF entry.growth_rate = NoGrowth THEN 0 ELSE entry.growth_rate
        clampedGrowth == IF growth < 0 THEN 0 ELSE IF growth > Scale THEN Scale ELSE growth
        sum == 4 * entry.surge_score + 2 * entry.confidence + 2 * clampedVelocity + entry.recent_convergence + clampedGrowth
        bonus == IF 10 * entry.recent_convergence > 7 * Scale THEN 11 ELSE 10
        penalty == IF 10 * entry.confidence < 3 * Scale THEN 8 ELSE 10
    IN sum * bonus * penalty

\* C16: the ranking score of every entry is the weighted sum (0.4, 0.2, 0.2,
\* 0.1, 0.1) of surge_score, confidence, clamp(recent_velocity/10, 0, 1),
\* recent_convergence and clamp(growth_rate, 0, 1), times 1.1 exactly when
\* recent_convergence > 0.7 and times 0.8 exactly when confidence < 0.3;
\* a topic without a feature row in the window counts velocity and
\* convergence as 0 and a curve without a growth rate counts growth as 0.
C16_RankingScoreFormula ==
    last.op = "rank_topics" =>
        \A a \in 1..Len(last.topic_scores) :
            LET entry == last.topic_scores[a]
                forecast == TheOne({f \in forecasts : f.topic_id = entry.topic_id /\ f.horizon_days = last.horizon_days})
            IN /\ entry.ranking_score = ScoreOfEntry(entry)
               /\ entry.surge_score = forecast.surge_score
               /\ entry.confidence = forecast.confidence_score
               /\ RowsInWindow(entry.topic_id) = {} => entry.recent_velocity = 0 /\ entry.recent_convergence = 0
               /\ \A r \in RowsInWindow(entry.topic_id) :
                     (\A q \in RowsInWindow(entry.topic_id) : q.date <= r.date)
                         => entry.recent_velocity = r.velocity /\ entry.recent_convergence = r.convergence
               /\ Len(forecast.forecast_curve) < 2 => entry.growth_rate = NoGrowth
               /\ Len(forecast.forecast_curve) >= 2 /\ forecast.forecast_curve[1] # 0
                     => entry.growth_rate = ((forecast.forecast_curve[Len(forecast.forecast_curve)] - forecast.forecast_curve[1]) * Scale) \div forecast.forecast_curve[1]

\* a ranking with an entry that takes the bonus and the penalty together, an
\* entry that takes neither, and positive scores
C16_Witness ==
    /\ last.op = "rank_topics"
    /\ \E a, b \in 1..Len(last.topic_scores) :
          /\ last.topic_scores[a].recent_convergence > convergence_bonus_above
          /\ last.topic_scores[a].confidence < confidence_penalty_below
          /\ last.topic_scores[a].ranking_score > 0
          /\ last.topic_scores[b].confidence >= confidence_penalty_below
          /\ last.topic_scores[b].ranking_score > 0


\* the entry of a topic in the scored list of the last ranking
EntryOf(topic_id) == TheOne({last.topic_scores[a] : a \in {b \in 1..Len(last.topic_scores) : last.topic_scores[b].topic_id = topic_id}})

\* the ranking of the three topics with (surge score / confidence) 0.9/0.3,
\* 0.7/0.9 and 0.6/0.7 and otherwise equal inputs
ThreeTopicExample ==
    /\ last.op = "rank_topics"
    /\ Len(last.topic_scores) = 3
    /\ 10 * EntryOf("t1").surge_score = 9 * Scale /\ 10 * EntryOf("t1").confidence = 3 * Scale
    /\ 10 * EntryOf("t2").surge_score = 7 * Scale /\ 10 * EntryOf("t2").confidence = 9 * Scale
    /\ 10 * EntryOf("t3").surge_score = 6 * Scale /\ 10 * EntryOf("t3").confidence = 7 * Scale

\* the score of an entry without the penalty: the weighted sum with the
\* bonus, in units of RankOne per 1.0
UnpenalisedScore(entry) ==
    LET velocity == Min2(Scale, Max2(0, entry.recent_velocity \div 10))
        growth == Min2(Scale, Max2(0, IF entry.growth_rate = NoGrowth THEN 0 ELSE entry.growth_rate))
        sum == 4 * entry.surge_score + 2 * entry.confidence + 2 * velocity + entry.recent_convergence + growth
    IN sum * (IF 10 * entry.recent_convergence > 7 * Scale THEN 11 ELSE 10) * 10

\* C17 as stated: in the example of the three topics the x0.8 penalty is
\* applied to the first topic and only to the first: the first topic's score
\* is 0.8 times its unpenalised weighted sum, the others' scores are their
\* unpenalised sums.
C17_PenaltyOnFirstOnly ==
    ThreeTopicExample =>
        /\ 10 * EntryOf("t1").ranking_score = 8 * UnpenalisedScore(EntryOf("t1"))
        /\ EntryOf("t2").ranking_score = UnpenalisedScore(EntryOf("t2"))
        /\ EntryOf("t3").ranking_score = UnpenalisedScore(EntryOf("t3"))

\* C17 amended: in the example of the three topics the x0.8 penalty is
\* applied to none of them, a confidence of 0.3 not being below 0.3: the
\* score of each of the three, the first included, is its unpenalised
\* weighted sum.
C17_NoPenaltyInExample ==
    ThreeTopicExample =>
        \A t \in RankedTopics : EntryOf(t).ranking_score = UnpenalisedScore(EntryOf(t))

\* the example ranked, with the first topic's score positive
C17_Witness ==
    /\ ThreeTopicExample
    /\ Len(last.rankings) = 3
    /\ EntryOf("t1").ranking_score > 0
    /\ EntryOf("t1").ranking_score = UnpenalisedScore(EntryOf("t1"))


\* C18: the ranking score of a record with surge_score and confidence_score
\* in [0, 1], a recent convergence in [0, 1] and any recent velocity and
\* growth rate lies in [0, 1] under the default weights.
C18_RankingScoreWithinUnitInterval ==
    last.op = "rank_topics" =>
        \A a \in 1..Len(last.topic_scores) :
            LET entry == last.topic_scores[a]
            IN (/\ 0 <= entry.surge_score /\ entry.surge_score <= Scale
                /\ 0 <= entry.confidence /\ entry.confidence <= Scale
                /\ 0 <= entry.recent_convergence /\ entry.recent_convergence <= Scale)
                   => 0 <= entry.ranking_score /\ entry.ranking_score <= RankOne

\* the alert types the thresholds give an entry
TypesDue(entry) ==
    (IF 10 * entry.surge_score > 8 * Scale THEN {"high_surge"} ELSE {})
    \cup (IF 10 * entry.confidence < 4 * Scale THEN {"low_confidence"} ELSE {})
    \cup (IF entry.growth_rate # NoGrowth /\ entry.growth_rate > Scale THEN {"high_growth"} ELSE {})

\* C19: get_ranking_alerts evaluates only the first entry of the rankings: a
\* high_surge alert (severity high) exactly when its surge_score > 0.8, a
\* low_confidence alert (severity medium) exactly when its confidence < 0.4,
\* a high_growth alert (severity high) exactly when its growth_rate > 1.0;
\* the entries below never produce an alert and an empty ranking produces
\* none.
C19_AlertsOfTopEntryOnly ==
    last.op = "get_ranking_alerts" =>
        IF last.rankings = <<>> THEN last.alerts = <<>>
        ELSE /\ {last.alerts[i].type : i \in 1..Len(last.alerts)} = TypesDue(last.rankings[1])
             /\ Len(last.alerts) = Cardinality(TypesDue(last.rankings[1]))
             /\ \A i \in 1..Len(last.alerts) :
                   last.alerts[i].severity = (IF last.alerts[i].type = "low_confidence" THEN "medium" ELSE "high")


\* ---------------------------------------------------------------------
\* The feature vector of a day and the events after it
\* ---------------------------------------------------------------------

\* the events of evs dated on or before d
EventsUpTo(evs, d) == [e \in {x \in DOMAIN evs : x.day <= d} |-> evs[e]]

\* the record for day d of a computation over the events up to d alone
RecordStoppedAt(topic_id, evs, d) == TheOne({r \in DOMAIN FeatureRecords(topic_id, EventsUpTo(evs, d)) : r.date = d})

\* C20: the feature vector a rebuild stores for day d of a topic is the one
\* a computation over the window's events dated on or before d alone gives:
\* its counts, magnitude sum, velocity, acceleration, z_spike and
\* convergence depend on no later event, so two event sets that agree up to
\* d give the same vector for d.
C20_VectorUsesNoLaterEvent ==
    (last.op = "rebuild_topic_features" /\ ~last.raised) =>
        LET evs == WindowEvents(events, last.topic, start_date(last.days))
        IN \A d \in EventDates(evs) :
              /\ \E r \in DOMAIN features : r.topic_id = last.topic /\ r.date = d
              /\ \A r \in DOMAIN features :
                    (r.topic_id = last.topic /\ r.date = d) => r = RecordStoppedAt(last.topic, evs, d)

\* a rebuild over two event-days: the vector of the later day has a
\* velocity the later events raised, the vector of the earlier day is stored
\* with events after it in the window
C20_Witness ==
    /\ last.op = "rebuild_topic_features" /\ ~last.raised
    /\ last.ret = 2
    /\ \E r, q \in DOMAIN features :
          /\ r.topic_id = last.topic /\ q.topic_id = last.topic
          /\ r.date < q.date
          /\ q.velocity # 0
          /\ r.velocity = 0
          /\ \E e \in DOMAIN WindowEvents(events, last.topic, start_date(last.days)) : e.day > r.date


\* ---------------------------------------------------------------------
\* One forced rebuild over the events of two days and four sources
\* ---------------------------------------------------------------------
MaxPerSource == 2

\* the events of one topic: counts[src] events of each source today, one
\* event yesterday of each source of earlier
EventsOfDays(topic_id, counts, earlier) ==
    LET today == {[topic_id |-> topic_id, day |-> Today, source |-> src, magnitude |-> 1] : src \in {x \in Sources : counts[x] > 0}}
        yesterday == {[topic_id |-> topic_id, day |-> Today - 1, source |-> src, magnitude |-> 1] : src \in earlier}
    IN [e \in today \cup yesterday |-> IF e.day = Today THEN counts[e.source] ELSE 1]

EarlierChoices == {{}, {"arxiv"}, Sources}

InitBuild ==
    /\ \E counts \in [Sources -> 0..MaxPerSource], earlier \in EarlierChoices :
          /\ \E src \in Sources : counts[src] > 0
          /\ events = EventsOfDays("t1", counts, earlier)
    /\ stored = 0
    /\ features = EmptyBag
    /\ forecasts = {}
    /\ topic_name = [t \in Topics |-> IF t = "t1" THEN "n1" ELSE "n2"]
    /\ nextId = 1
    /\ clock = 1
    /\ last = [op |-> "init"]
    /\ wk = [w \in Workers |-> Idle]

NextBuild == \E ok \in BOOLEAN : RebuildTopicFeatures("t1", DefaultLookback, ok)

SpecBuild == InitBuild /\ [][NextBuild]_vars

\* C21: every feature vector built from events of the sources arxiv, github,
\* jobs and funding has unique_sources <= 4 and a mention_count_total equal
\* to the sum of its four per-source counts.
C21_CountsAddUp ==
    \A r \in DOMAIN features :
        /\ r.unique_sources <= 4
        /\ r.mention_count_total = r.mention_count_arxiv + r.mention_count_github + r.mention_count_jobs + r.mention_count_funding

\* a vector of a day on which the four sources report, several events each,
\* stored beside the vector of an earlier day
C21_Witness ==
    \E r, q \in DOMAIN features :
        /\ r.unique_sources = 4
        /\ r.mention_count_total = 4 * MaxPerSource
        /\ q.date < r.date


\* ---------------------------------------------------------------------
\* TimeSeriesAnalyzer: the primitives over one sequence of daily values
\* ---------------------------------------------------------------------
MaxLen == 6
Spike == 10
SmallWindow == 2
test_window == 5
smooth_window == 3
change_threshold == 2 * Scale

\* np.mean and np.std of a non-empty list, in units of Scale (the std to
\* two decimals)
Mean(w) == (SumSeq(w) * Scale) \div Len(w)
PopStd(w) ==
    LET n == Len(w)
        s == SumSeq(w)
        dev2 == SumSeq([j \in 1..n |-> (n * w[j] - s) * (n * w[j] - s)])
    IN  ISqrt((dev2 * 100 * 100) \div (n * n * n)) * (Scale \div 100)

\* TimeSeriesAnalyzer.detect_change_points: the indices (from 0) of the
\* z-scores beyond the threshold
detect_change_points(values, threshold) ==
    IF Len(values) < 3 THEN <<>>
    ELSE LET z_scores == calculate_z_score_spike(values, z_window)
         IN  SortedSeq({i - 1 : i \in {j \in 1..Len(values) : z_scores[j] > threshold \/ 0 - z_scores[j] > threshold}})

\* TimeSeriesAnalyzer.smooth_series: a list shorter than the window is
\* returned as it is
smooth_series(values, window) ==
    IF Len(values) < window THEN [i \in 1..Len(values) |-> values[i] * Scale]
    ELSE [i \in 1..Len(values) |->
            IF i - 1 < window - 1 THEN Mean(SubSeq(values, 1, i))
            ELSE Mean(SubSeq(values, i - window + 1, i))]

\* TimeSeriesAnalyzer.calculate_trend_strength: the R-squared of the least
\* squares line through the values, to two decimals
calculate_trend_strength(values) ==
    IF Len(values) < 2 THEN 0
    ELSE LET n == Len(values)
             sx == SumSeq([i \in 1..n |-> i - 1])
             sy == SumSeq(values)
             sxx == n * SumSeq([i \in 1..n |-> (i - 1) * (i - 1)]) - sx * sx
             sxy == n * SumSeq([i \in 1..n |-> (i - 1) * values[i]]) - sx * sy
             ss_tot == n * SumSeq([i \in 1..n |-> values[i] * values[i]]) - sy * sy
         IN  IF ss_tot = 0 THEN 0
             ELSE ((sxy * sxy * 100) \div (sxx * ss_tot)) * (Scale \div 100)

\* TimeSeriesAnalyzer.calculate_volatility
calculate_volatility(values, window) ==
    IF Len(values) < window THEN [i \in 1..Len(values) |-> 0]
    ELSE [i \in 1..Len(values) |->
            IF i - 1 < window - 1 THEN 0 ELSE PopStd(SubSeq(values, i - window + 1, i))]

ValueSet == {0, 1, Spike}
SeriesInputs == UNION {[1..n -> ValueSet] : n \in 0..MaxLen}
Windows == {SmallWindow, test_window}

\* the counts of the four sources a list of values is read as: two sources
\* report the values, one stops a day early, one reports nothing
SourceCountsOf(values) ==
    [src \in Sources |->
        CASE src = "arxiv" -> values
          [] src = "github" -> values
          [] src = "jobs" -> SubSeq(values, 1, Len(values) - 1)
          [] src = "funding" -> [i \in 1..Len(values) |-> 0]]

InitSeries ==
    /\ events = EmptyBag
    /\ stored = 0
    /\ features = EmptyBag
    /\ forecasts = {}
    /\ topic_name = [t \in Topics |-> IF t = "t1" THEN "n1" ELSE "n2"]
    /\ nextId = 1
    /\ clock = 1
    /\ \E values \in SeriesInputs, window \in Windows :
          last = [op |-> "series_request", values |-> values, window |-> window]
    /\ wk = [w \in Workers |-> Idle]

\* the record of one primitive applied to the values drawn
Applied(op, result) == [op |-> op, values |-> last.values, window |-> last.window, result |-> result]

Velocity ==
    /\ last.op = "series_request"
    /\ last' = Applied("calculate_velocity", calculate_velocity(last.values))
    /\ UNCHANGED <<events, stored, features, forecasts, topic_name, nextId, clock, wk>>

Acceleration ==
    /\ last.op = "series_request"
    /\ last' = Applied("calculate_acceleration", calculate_acceleration([i \in 1..Len(last.values) |-> last.values[i] * Scale]))
    /\ UNCHANGED <<events, stored, features, forecasts, topic_name, nextId, clock, wk>>

ZScoreSpike ==
    /\ last.op = "series_request"
    /\ last' = Applied("calculate_z_score_spike", calculate_z_score_spike(last.values, last.window))
    /\ UNCHANGED <<events, stored, features, forecasts, topic_name, nextId, clock, wk>>

Convergence ==
    /\ last.op = "series_request"
    /\ last' = Applied("calculate_convergence", calculate_convergence(SourceCountsOf(last.values)))
    /\ UNCHANGED <<events, stored, features, forecasts, topic_name, nextId, clock, wk>>

ChangePoints ==
    /\ last.op = "series_request"
    /\ last' = Applied("detect_change_points", detect_change_points(last.values, change_threshold))
    /\ UNCHANGED <<events, stored, features, forecasts, topic_name, nextId, clock, wk>>

SmoothSeries ==
    /\ last.op = "series_request"
    /\ last' = Applied("smooth_series", smooth_series(last.values, smooth_window))
    /\ UNCHANGED <<events, stored, features, forecasts, topic_name, nextId, clock, wk>>

TrendStrength ==
    /\ last.op = "series_request"
    /\ last' = Applied("calculate_trend_strength", <<calculate_trend_strength(last.values)>>)
    /\ UNCHANGED <<events, stored, features, forecasts, topic_name, nextId, clock, wk>>

Volatility ==
    /\ last.op = "series_request"
    /\ last' = Applied("calculate_volatility", calculate_volatility(last.values, last.window))
    /\ UNCHANGED <<events, stored, features, forecasts, topic_name, nextId, clock, wk>>

NextSeries ==
    \/ Velocity
    \/ Acceleration
    \/ ZScoreSpike
    \/ Convergence
    \/ ChangePoints
    \/ SmoothSeries
    \/ TrendStrength
    \/ Volatility

SpecSeries == InitSeries /\ [][NextSeries]_vars


\* z is, to two decimals and in units of Scale, the quotient of num / n by
\* the population standard deviation of n values with squared distances dev2
IsZScore(z, num, dev2, n) ==
    LET hundredths == (IF z >= 0 THEN z ELSE 0 - z) \div (Scale \div 100)
    IN  /\ (num >= 0 => z >= 0) /\ (num <= 0 => z <= 0)
        /\ hundredths * hundredths * dev2 <= num * num * n * 100 * 100
        /\ num * num * n * 100 * 100 < (hundredths + 1) * (hundredths + 1) * dev2

C23_DetectsTrailingOutlier ==
    (/\ last.op = "calculate_z_score_spike"
     /\ last.values = <<1, 1, 1, 1, 1, 10>>
     /\ last.window = 5) =>
        /\ Len(last.result) = 6
        /\ \A i \in 1..5 : last.result[i] = 0
        /\ last.result[6] > 2 * Scale


\* the exponentially smoothed series at place i (from 1): s_1 = x_1 and
\* s_i = alpha * x_i + (1 - alpha) * s_(i-1) with alpha = 0.3, in units of
\* Scale and rounded down
RECURSIVE SmoothedAt(_, _)
SmoothedAt(values, i) ==
    IF i = 1 THEN values[1] * Scale
    ELSE (3 * values[i] * Scale + 7 * SmoothedAt(values, i - 1)) \div 10

NonDecreasing(values) == \A i \in 1..(Len(values) - 1) : values[i] <= values[i + 1]

\* C24: velocity returns as many elements as it is given; the first is 0 and
\* every later one is the difference of the consecutive values of the
\* exponentially smoothed series; for a non-decreasing input every element
\* after the first is non-negative.
C24_VelocityOfSmoothedSeries ==
    last.op = "calculate_velocity" =>
        /\ Len(last.result) = Len(last.values)
        /\ Len(last.values) >= 1 => last.result[1] = 0
        /\ \A i \in 2..Len(last.values) :
              last.result[i] = SmoothedAt(last.values, i) - SmoothedAt(last.values, i - 1)
        /\ NonDecreasing(last.values) => \A i \in 2..Len(last.values) : last.result[i] >= 0

\* a non-decreasing input that starts above 0, rises and then stays level:
\* the velocity is positive to the end
C24_Witness ==
    /\ last.op = "calculate_velocity"
    /\ Len(last.values) = MaxLen
    /\ NonDecreasing(last.values)
    /\ last.values[1] > 0
    /\ last.values[2] > last.values[1]
    /\ last.values[MaxLen] = last.values[2]
    /\ last.result[MaxLen] > 0


\* the length below which a primitive has too few values to work on
RequiredLength(op, window) ==
    CASE op = "calculate_velocity" -> 2
      [] op = "calculate_acceleration" -> 2
      [] op = "calculate_z_score_spike" -> window
      [] op = "calculate_convergence" -> 0
      [] op = "detect_change_points" -> 3
      [] op = "smooth_series" -> 3
      [] op = "calculate_trend_strength" -> 2
      [] op = "calculate_volatility" -> window

\* C25: every primitive returns for every input, the empty and the
\* one-element sequence included, and returns an all-zero result, of the
\* input's length where it returns a sequence, whenever the input is shorter
\* than the primitive requires.
C25_ZeroOnShortInput ==
    (last.op \notin {"init", "series_request"} /\ Len(last.values) < RequiredLength(last.op, last.window)) =>
        CASE last.op = "detect_change_points" -> last.result = <<>>
          [] last.op = "calculate_trend_strength" -> last.result = <<0>>
          [] OTHER -> /\ Len(last.result) = Len(last.values)
                      /\ \A i \in 1..Len(last.result) : last.result[i] = 0


\* C26: a forced rebuild whose commit fails raises to the caller of the
\* per-topic build and leaves the stored vectors exactly as they were before
\* the call: neither a deletion nor an insertion persists.
C26_FailedRebuildChangesNothing ==
    [][(last'.op = "rebuild_topic_features" /\ last'.raised) => features' = features]_vars

\* a rebuild that raised, with a vector of the topic still stored and an
\* event-day of the window that has no vector
C26_Witness ==
    /\ last.op = "rebuild_topic_features"
    /\ last.raised
    /\ \E r \in DOMAIN features : r.topic_id = last.topic /\ r.date >= start_date(last.days)
    /\ \E e \in DOMAIN events :
          /\ e.topic_id = last.topic
          /\ e.day >= start_date(last.days)
          /\ RowsAt(features, last.topic, e.day) = 0


\* the sources with at least one event of the topic on day d
ActiveSources(topic_id, d) == {e.source : e \in {x \in DOMAIN events : x.topic_id = topic_id /\ x.day = d}}

\* C27: the convergence of every vector the builder stores, the vector of
\* the first event-day of the window included, is the fraction of the four
\* sources with at least one event on that day.
C27_ConvergenceIsSourceFraction ==
    \A r \in DOMAIN features :
        4 * r.convergence = Cardinality(ActiveSources(r.topic_id, r.date)) * Scale


\* ---------------------------------------------------------------------
\* The leaderboard of a store the forecast operations have written
\* ---------------------------------------------------------------------

\* rank_topics(horizon_days) over the store as the forecast operations left
\* it; after: the operation before the ranking
RankStore(horizon_days) ==
    /\ last.op # "rank_topics"
    /\ \E rows \in Orders({f \in forecasts : f.horizon_days = horizon_days}) :
          last' = [op |-> "rank_topics", horizon_days |-> horizon_days,
                   limit |-> default_limit,
                   topic_scores |-> TopicScores(rows, topic_name, features),
                   rankings |-> rank_topics(rows, topic_name, features, default_limit),
                   after |-> last]
    /\ UNCHANGED <<events, stored, features, forecasts, topic_name, nextId, clock, wk>>

NextBoard ==
    \/ last.op # "rank_topics" /\ NextForecast
    \/ \E horizon_days \in Horizons : RankStore(horizon_days)

SpecBoard == InitForecast /\ [][NextBoard]_vars

HasRecord(fc, topic_id, horizon_days) ==
    \E f \in fc : f.topic_id = topic_id /\ f.horizon_days = horizon_days

\* the call returned at "Insufficient data" (baseline.py line 90) or at
\* "Failed to generate forecast" (line 97)
EndedWithoutForecast(call, feat) ==
    \/ Len(_get_topic_features_data(feat, call.topic)) < min_data_points
    \/ call.fitted /\ ~call.wrote /\ ~call.raised

\* C29: a forced baseline forecast for a key that already has a record, ending
\* with insufficient data or with every candidate failing, returns 0 and
\* leaves the table of forecasts, the key's record included, as it was.
C29_FailedForcedForecastKeepsRecord ==
    [][(/\ last'.op = "forecast_topic_horizon"
        /\ last'.force
        /\ HasRecord(forecasts, last'.topic, last'.horizon)
        /\ EndedWithoutForecast(last', features))
       => (last'.ret = 0 /\ forecasts' = forecasts)]_vars

\* a forced call on a key with a record whose topic has too few feature rows
C29_Witness ==
    /\ last.op = "forecast_topic_horizon"
    /\ last.force
    /\ last.ret = 0
    /\ HasRecord(forecasts, last.topic, last.horizon)
    /\ Len(_get_topic_features_data(features, last.topic)) < min_data_points


\* ---------------------------------------------------------------------------
\* The growth rate of a curve of either sign
\* ---------------------------------------------------------------------------

\* the largest magnitude of a point estimate drawn
MaxPoint == 3

\* the point estimates of an ARIMA or exponential-smoothing curve: yhat is
\* float(forecast.iloc[i]), of either sign (only the linear trend clamps at 0)
PointValues == (0 - MaxPoint)..MaxPoint

\* the curves drawn: no point, one point, two points, or a whole horizon
GrowthCurves ==
    {<<>>} \cup {<<a * Scale>> : a \in PointValues}
    \cup {RankedCurve(<<a, b>>, n) : a \in PointValues, b \in PointValues, n \in {2, forecast_horizons[1]}}

\* a store of two records: the curve and the scores of the first are drawn
InitGrowth ==
    /\ events = EmptyBag
    /\ stored = 0
    /\ topic_name = [t \in RankedTopics |-> IF t = "t1" THEN "n1" ELSE IF t = "t2" THEN "n2" ELSE "n3"]
    /\ features = EmptyBag
    /\ \E profile \in DOMAIN Profiles, forecast_curve \in GrowthCurves :
          forecasts = {[RankedForecast(1, "t1", profile, forecast_curve) EXCEPT !.model_type = Candidates[1]],
                       RankedForecast(2, "t2", "C", RankedCurve(<<1, 1>>, 2))}
    /\ nextId = 3
    /\ clock = 1
    /\ last = [op |-> "init"]
    /\ wk = [w \in Workers |-> Idle]

SpecGrowth == InitGrowth /\ [][NextRanker]_vars

Sign(x) == IF x > 0 THEN 1 ELSE IF x < 0 THEN 0 - 1 ELSE 0

\* the curves of the entries a call of rank_topics returned, with the
\* growth rate derived from each
GrowthOfEntries ==
    IF last.op = "rank_topics"
    THEN {<<last.rankings[i].forecast_curve, last.rankings[i].growth_rate>> : i \in 1..Len(last.rankings)}
    ELSE {}

\* C30: the growth rate of a curve with at least two points has the sign of
\* last - first (0 when the first point is 0), and a high_growth alert is
\* raised only for a top entry whose curve ends above its first point.
C30_GrowthHasSignOfChange ==
    /\ \A e \in GrowthOfEntries :
          Len(e[1]) >= 2 =>
             Sign(e[2]) = IF e[1][1] = 0 THEN 0 ELSE Sign(e[1][Len(e[1])] - e[1][1])
    /\ (/\ last.op = "get_ranking_alerts"
        /\ \E i \in 1..Len(last.alerts) : last.alerts[i].type = "high_growth")
       => LET forecast_curve == TopEntry(last.rankings).forecast_curve
          IN  forecast_curve[Len(forecast_curve)] > forecast_curve[1]

====
